---- MODULE Spec2Model ----
(***************************************************************************)
(* Fantasy-football scoring and projection engine.                         *)
(*                                                                         *)
(* Numbers.  Stat values (yards, counts, projected touchdowns) are held in *)
(* tenths: 1505 is 150.5.  Rates of the scoring_rules tables are held in   *)
(* thousandths of a point: 40 is 1/25 point.  A running score is therefore *)
(* held in 1/10000 point (value in tenths times rate in thousandths).      *)
(* A published point total is held in the same unit: 1000 is 0.1 point.    *)
(* Python's round(x, 1) works on binary floats: away from a tie it yields  *)
(* the nearest tenth, on an exact decimal tie the float error decides, so  *)
(* round is modelled as the set of nearest tenths (both on a tie).         *)
(***************************************************************************)
EXTENDS Integers, Sequences, FiniteSets, TLC

VARIABLES
    op,            \* entry point whose result the caller holds, "idle" if none
    proj_data,     \* the stat record (dict) passed to a scorer
    args,          \* the numeric arguments of the call, in tenths
    name,          \* the actor name passed to a pattern lookup (characters)
    out,           \* the value returned, in 1/10000 point
    raised,        \* the exception the call raised, "none" if it returned
    pbp_data,      \* the season's play-by-play rows: [td |-> bag, fg |-> bag]
    td_patterns,   \* fantasy_projections.HistoricalPatternAnalyzer.td_patterns
    fg_patterns,   \* fantasy_projections.HistoricalPatternAnalyzer.fg_patterns
    data_loaded,   \* fantasy_projections.HistoricalPatternAnalyzer.data_loaded
    tpa_pc,        \* td_pattern_analyzer.py's script: "new", "loaded", "td", "done"
    tpa_td_patterns,  \* td_pattern_analyzer.HistoricalPatternAnalyzer.td_patterns
    tpa_fg_patterns,  \* td_pattern_analyzer.HistoricalPatternAnalyzer.fg_patterns
    pbp_reg,       \* saquon_scorer.FinalLeagueScorer.pbp_reg: bag of touchdown rows
    weekly_reg,    \* saquon_scorer.FinalLeagueScorer.weekly_reg: one player-week row
    return_yards_allowed,  \* DefenseReturnAnalyzer.return_yards_allowed: team -> yards, tenths
    return_loaded,         \* DefenseReturnAnalyzer.data_loaded
    proj_files,    \* fantasy_tracking/projections: week -> the saved projections file
    result_files   \* fantasy_tracking/results: week -> the saved results file

vars == <<op, proj_data, args, name, out, raised, pbp_data, td_patterns,
          fg_patterns, data_loaded, tpa_pc, tpa_td_patterns, tpa_fg_patterns,
          pbp_reg, weekly_reg, return_yards_allowed, return_loaded,
          proj_files, result_files>>

callVars == <<op, proj_data, args, name, out, raised>>
fpVars == <<td_patterns, fg_patterns, data_loaded>>
tpaVars == <<tpa_pc, tpa_td_patterns, tpa_fg_patterns>>
patternVars == <<pbp_data, fpVars, tpaVars>>
weeklyVars == <<pbp_reg, weekly_reg>>
returnVars == <<return_yards_allowed, return_loaded>>
trackVars == <<proj_files, result_files>>

----------------------------------------------------------------------------
(* Bounds *)

MaxKeys == 2

\* Touchdown rows in the weekly scorer's play-by-play data
MaxTdRows == 2

\* Touchdown rows and field-goal rows in the season the pattern analyzers load
MaxPbpTds == 4
MaxPbpFgs == 5

\* Characters of an actor name passed to a pattern lookup
MaxNameLen == 5

----------------------------------------------------------------------------
(* Arithmetic *)

\* A score of one point, in the unit a running score is held in.
Scale == 10 * 1000

\* A whole number of points, and a bonus of the tables (thousandths), as a score.
Points(p) == p * Scale
Bonus(rate) == rate * 10

Abs(x) == IF x < 0 THEN -x ELSE x

\* round(num/den, 1) of a value of num/den points, as a score: every tenth of
\* a point nearest to it.
Round1(num, den) ==
    LET f == (10 * num) \div den
    IN  {t * (Scale \div 10) : t \in {g \in {f, f + 1} : 2 * Abs(10 * num - g * den) <= den}}

EmptyDict == [k \in {} |-> 0]

Has(d, k) == k \in DOMAIN d

\* dict.get(k, default)
Get(d, k, default) == IF Has(d, k) THEN d[k] ELSE default

Put(d, k, v) == [x \in DOMAIN d \cup {k} |-> IF x = k THEN v ELSE d[x]]

\* Mutant: an absent stat counted as one instead of zero
Term_default_one(d, k, rate) == IF Has(d, k) THEN d[k] * rate ELSE 10 * rate

\* "if k in d: score += d[k] * rate"
Term(d, k, rate) == IF Has(d, k) THEN d[k] * rate ELSE 0

RECURSIVE SumOver(_, _)
SumOver(S, f) ==
    IF S = {} THEN 0
    ELSE LET x == CHOOSE y \in S : TRUE IN f[x] + SumOver(S \ {x}, f)

----------------------------------------------------------------------------
(* fantasy_projections.py: the three scorers *)

\* FinalLeagueScorer.scoring_rules, thousandths of a point
FinalLeagueScorer_scoring_rules ==
    [completion |-> 1000, passing_yard |-> 40, passing_td |-> 4000,
     interception |-> -2000, sack |-> -1000,
     passing_300_399_bonus |-> 3000, passing_400plus_bonus |-> 5000,
     passing_td_40_49_bonus |-> 3000, passing_td_50plus_bonus |-> 5000,
     rushing_attempt |-> 200, rushing_yard |-> 100, rushing_td |-> 6000,
     rushing_td_40_49_bonus |-> 3000, rushing_td_50plus_bonus |-> 5000,
     rushing_100_199_bonus |-> 5000, rushing_200plus_bonus |-> 10000,
     reception |-> 1000, receiving_yard |-> 100, receiving_td |-> 6000,
     receiving_td_40_49_bonus |-> 3000, receiving_td_50plus_bonus |-> 5000,
     receiving_100_199_bonus |-> 5000, receiving_200plus_bonus |-> 10000,
     return_yard |-> 100, return_td |-> 5000,
     fumble_recovered_td |-> 6000, fumble_lost |-> -2000,
     two_point_conversion |-> 2000]

\* Mutant: both passing tiers added at 400 yards
passing_yardage_bonus_both(rules, yards) ==
    (IF yards >= 4000 THEN Bonus(rules.passing_400plus_bonus) ELSE 0)
    + (IF yards >= 3000 THEN Bonus(rules.passing_300_399_bonus) ELSE 0)

\* "if yards >= 400: ... elif yards >= 300: ..." (yards in tenths)
passing_yardage_bonus(rules, yards) ==
    IF yards >= 4000 THEN Bonus(rules.passing_400plus_bonus)
    ELSE IF yards >= 3000 THEN Bonus(rules.passing_300_399_bonus)
    ELSE 0

\* Mutant: the 200+ tier replaces the 100+ tier instead of adding to it
rushing_yardage_bonus_elif(rules, yards) ==
    IF yards >= 2000 THEN Bonus(rules.rushing_200plus_bonus)
    ELSE IF yards >= 1000 THEN Bonus(rules.rushing_100_199_bonus)
    ELSE 0

\* "if yards >= 100: ...; if yards >= 200: ..." (cumulative)
rushing_yardage_bonus(rules, yards) ==
    (IF yards >= 1000 THEN Bonus(rules.rushing_100_199_bonus) ELSE 0)
    + (IF yards >= 2000 THEN Bonus(rules.rushing_200plus_bonus) ELSE 0)

receiving_yardage_bonus(rules, yards) ==
    (IF yards >= 1000 THEN Bonus(rules.receiving_100_199_bonus) ELSE 0)
    + (IF yards >= 2000 THEN Bonus(rules.receiving_200plus_bonus) ELSE 0)

\* FinalLeagueScorer.calculate_projected_score, before the final round
FinalLeagueScorer_score(d) ==
    LET r == FinalLeagueScorer_scoring_rules
    IN  Term(d, "completions", r.completion)
        + Term(d, "passing_yards", r.passing_yard)
        + (IF Has(d, "passing_yards")
           THEN passing_yardage_bonus(r, d["passing_yards"]) ELSE 0)
        + Term(d, "passing_tds", r.passing_td)
        + Term(d, "interceptions", r.interception)
        + Term(d, "sacks", r.sack)
        + Term(d, "rushing_attempts", r.rushing_attempt)
        + Term(d, "rushing_yards", r.rushing_yard)
        + (IF Has(d, "rushing_yards")
           THEN rushing_yardage_bonus(r, d["rushing_yards"]) ELSE 0)
        + Term(d, "rushing_tds", r.rushing_td)
        + Term(d, "receptions", r.reception)
        + Term(d, "receiving_yards", r.receiving_yard)
        + (IF Has(d, "receiving_yards")
           THEN receiving_yardage_bonus(r, d["receiving_yards"]) ELSE 0)
        + Term(d, "receiving_tds", r.receiving_td)
        + Term(d, "fumbles_lost", r.fumble_lost)

\* KickerScorer.scoring_rules
KickerScorer_scoring_rules ==
    [pat_made |-> 1000, fg_0_19 |-> 3000, fg_20_29 |-> 3000, fg_30_39 |-> 3000,
     fg_40_49 |-> 3000, fg_50plus |-> 5000]

\* The flat rate of "score += total_fg * 3.2"
KickerScorer_flat_rate == 3200

\* "if 'fg' in proj_data and 'fg_0_19' not in proj_data"
KickerScorer_only_total(d) == Has(d, "fg") /\ ~Has(d, "fg_0_19")

\* KickerScorer.calculate_projected_score, before the final round
KickerScorer_score(d) ==
    LET r == KickerScorer_scoring_rules
    IN  Term(d, "pat", r.pat_made)
        + Term(d, "fg_0_19", r.fg_0_19)
        + Term(d, "fg_20_29", r.fg_20_29)
        + Term(d, "fg_30_39", r.fg_30_39)
        + Term(d, "fg_40_49", r.fg_40_49)
        + Term(d, "fg_50plus", r.fg_50plus)
        + (IF KickerScorer_only_total(d) THEN d["fg"] * KickerScorer_flat_rate ELSE 0)

\* DefenseScorer.scoring_rules
DefenseScorer_scoring_rules ==
    [sack |-> 1000, interception |-> 2000, fumble_recovery |-> 2000,
     fumble_forced |-> 1000, safety |-> 2000, defensive_td |-> 6000,
     blocked_kick |-> 2000, return_td |-> 6000, return_yard |-> 100,
     two_point_return |-> 2000]

\* DefenseScorer.points_allowed_scoring in insertion order: <<low, high, points>>,
\* low and high in whole points allowed, points in thousandths
points_allowed_scoring ==
    << <<0, 0, 10000>>, <<1, 6, 7000>>, <<7, 13, 4000>>, <<14, 20, 1000>>,
       <<21, 27, 0>>, <<28, 34, -1000>>, <<35, 100, -4000>> >>

\* Mutant: a second yards-allowed band, 100 to 299 yards
yards_allowed_bonus_two_bands == << <<0, 99, 3000>>, <<100, 299, 1000>> >>

\* DefenseScorer.yards_allowed_bonus
yards_allowed_bonus == << <<0, 99, 3000>> >>

\* "if low <= pa <= high" for a value v in tenths
band_matches(band, v) == band[1] * 10 <= v /\ v <= band[2] * 10

\* "for (low, high), points in table.items(): if low <= v <= high: score +=
\* points; break": the first band that matches, nothing when none does
band_lookup(table, v) ==
    LET hits == {i \in 1..Len(table) : band_matches(table[i], v)}
    IN  IF hits = {} THEN 0
        ELSE Bonus(table[CHOOSE i \in hits : \A j \in hits : i <= j][3])

\* Mutant: a missing points_allowed counted as no points allowed
default_points_allowed_zero == 0 * 10

\* Defaults of proj_data.get('points_allowed', 20), get('yards_allowed', 300)
default_points_allowed == 200
default_yards_allowed == 3000

\* DefenseScorer.calculate_projected_score, before the final round
DefenseScorer_score(d) ==
    LET r == DefenseScorer_scoring_rules
    IN  Get(d, "sacks", 0) * r.sack
        + Get(d, "interceptions", 0) * r.interception
        + Get(d, "fumble_recoveries", 0) * r.fumble_recovery
        + Get(d, "fumbles_forced", 0) * r.fumble_forced
        + Get(d, "safeties", 0) * r.safety
        + Get(d, "defensive_tds", 0) * r.defensive_td
        + Get(d, "blocked_kicks", 0) * r.blocked_kick
        + band_lookup(points_allowed_scoring, Get(d, "points_allowed", default_points_allowed))
        + band_lookup(yards_allowed_bonus, Get(d, "yards_allowed", default_yards_allowed))

----------------------------------------------------------------------------
(* saquon_scorer.py: the weekly scorer's bonus functions *)

\* saquon_scorer.FinalLeagueScorer.scoring_rules, thousandths of a point
weekly_scoring_rules ==
    [completion |-> 1000, passing_yard |-> 40, passing_td |-> 4000,
     interception |-> -2000, sack |-> -1000,
     passing_300_399_bonus |-> 3000, passing_400plus_bonus |-> 5000,
     passing_td_40_49_bonus |-> 3000, passing_td_50plus_bonus |-> 5000,
     rushing_attempt |-> 200, rushing_yard |-> 100, rushing_td |-> 6000,
     rushing_td_40_49_bonus |-> 3000, rushing_td_50plus_bonus |-> 5000,
     rushing_100_199_bonus |-> 5000, rushing_200plus_bonus |-> 10000,
     reception |-> 1000, receiving_yard |-> 100, receiving_td |-> 6000,
     receiving_td_40_49_bonus |-> 3000, receiving_td_50plus_bonus |-> 5000,
     receiving_100_199_bonus |-> 5000, receiving_200plus_bonus |-> 10000,
     return_yard |-> 100, return_td |-> 5000,
     fumble_recovered_td |-> 6000, fumble_lost |-> -2000,
     two_point_conversion |-> 2000]

\* get_weekly_yardage_bonuses: the bonus returned (yards in tenths)
get_weekly_yardage_bonuses(rushing_yards, receiving_yards) ==
    LET r == weekly_scoring_rules
    IN  (IF rushing_yards >= 1000 THEN Bonus(r.rushing_100_199_bonus) ELSE 0)
        + (IF rushing_yards >= 2000 THEN Bonus(r.rushing_200plus_bonus) ELSE 0)
        + (IF receiving_yards >= 1000 THEN Bonus(r.receiving_100_199_bonus) ELSE 0)
        + (IF receiving_yards >= 2000 THEN Bonus(r.receiving_200plus_bonus) ELSE 0)

\* get_weekly_passing_bonuses: the bonus returned
get_weekly_passing_bonuses(passing_yards) ==
    LET r == weekly_scoring_rules
    IN  IF passing_yards >= 4000 THEN Bonus(r.passing_400plus_bonus)
        ELSE IF passing_yards >= 3000 THEN Bonus(r.passing_300_399_bonus)
        ELSE 0

----------------------------------------------------------------------------
(* Inputs of the scorers *)

\* Yardage values on both sides of every yardage threshold, in tenths
YardVals == {0, 999, 1000, 1500, 1999, 2000, 2500, 2999, 3000, 3500, 3999, 4000, 4200}

\* Counts (completions, touchdowns, field goals, ...), in tenths
CountVals == {0, 7, 10, 20, 25}

\* Points allowed on both sides of every band edge, in tenths
PointsAllowedVals ==
    {0, 5, 10, 60, 65, 70, 130, 135, 140, 170, 200, 205, 210, 270, 275, 280,
     340, 345, 350, 1000, 1005}

YardsAllowedVals == {0, 500, 990, 995, 1000, 2500, 3000}

OffenseKnownKeys ==
    {"completions", "passing_yards", "passing_tds", "interceptions", "sacks",
     "rushing_attempts", "rushing_yards", "rushing_tds", "receptions",
     "receiving_yards", "receiving_tds", "fumbles_lost"}

\* Keys of a scraped or weekly record the projected-score function never reads
OffenseUnknownKeys == {"passing_attempts", "carries", "position"}

KickerKnownKeys ==
    {"pat", "fg_0_19", "fg_20_29", "fg_30_39", "fg_40_49", "fg_50plus", "fg"}

KickerBandKeys == {"fg_0_19", "fg_20_29", "fg_30_39", "fg_40_49", "fg_50plus"}

KickerUnknownKeys == {"fg_made", "fg_att", "pat_made"}

DefenseLinearKeys ==
    {"sacks", "interceptions", "fumble_recoveries", "fumbles_forced",
     "safeties", "defensive_tds", "blocked_kicks"}

DefenseKnownKeys == DefenseLinearKeys \cup {"points_allowed", "yards_allowed"}

DefenseUnknownKeys == {"position"}

\* The values a key takes
Vals(k) ==
    IF k \in {"passing_yards", "rushing_yards", "receiving_yards"} THEN YardVals
    ELSE IF k = "points_allowed" THEN PointsAllowedVals
    ELSE IF k = "yards_allowed" THEN YardsAllowedVals
    ELSE IF k = "position" THEN {"QB", "RB"}
    ELSE CountVals

\* Every dict with exactly the keys D
RECURSIVE DictsOver(_)
DictsOver(D) ==
    IF D = {} THEN {EmptyDict}
    ELSE LET k == CHOOSE x \in D : TRUE
         IN  {Put(d, k, v) : d \in DictsOver(D \ {k}), v \in Vals(k)}

\* The key sets of the dicts with at most MaxKeys of the keys K
KeySets(K) == {S \in SUBSET K : Cardinality(S) <= MaxKeys}

\* The worked records of a whole game: a running back's stat line and a
\* defense's stat line (counts and yards in tenths)
EndToEndOffense ==
    [carries |-> 200, rushing_yards |-> 1500, rushing_tds |-> 10,
     receptions |-> 50, receiving_yards |-> 500, receiving_tds |-> 0,
     fumbles_lost |-> 0]

EndToEndDefense ==
    [sacks |-> 30, interceptions |-> 10, points_allowed |-> 170,
     yards_allowed |-> 2500]

\* The records a scorer is called with: the worked record, and every dict
\* over one of the small key sets
RecordsOver(D, worked) == IF D = DOMAIN worked THEN {worked} ELSE DictsOver(D)

----------------------------------------------------------------------------
(* State *)

NoName == <<>>
NoArgs == <<>>

TypeOK ==
    /\ op \in STRING
    /\ raised \in {"none", "IndexError", "KeyError"}
    /\ data_loaded \in BOOLEAN

\* The state after construction: nothing called, nothing loaded
InitCall ==
    /\ op = "idle"
    /\ proj_data = EmptyDict
    /\ args = NoArgs
    /\ name = NoName
    /\ out = 0
    /\ raised = "none"

InitPatterns ==
    /\ pbp_data = [td |-> EmptyDict, fg |-> EmptyDict]
    /\ td_patterns = EmptyDict
    /\ fg_patterns = EmptyDict
    /\ data_loaded = FALSE
    /\ tpa_pc = "new"
    /\ tpa_td_patterns = EmptyDict
    /\ tpa_fg_patterns = EmptyDict

InitWeekly ==
    /\ pbp_reg = EmptyDict
    /\ weekly_reg = EmptyDict

\* DefenseReturnAnalyzer.__init__
InitReturn ==
    /\ return_yards_allowed = EmptyDict
    /\ return_loaded = FALSE

\* AccuracyTracker.__init__: the directories exist and hold no file
InitTracking ==
    /\ proj_files = EmptyDict
    /\ result_files = EmptyDict

Init == InitCall /\ InitPatterns /\ InitWeekly /\ InitReturn /\ InitTracking

\* The program is single-threaded and synchronous: a call starts when the
\* caller holds no pending result, and returns a value
Returns(opname, d, a, n, v) ==
    /\ op = "idle"
    /\ op' = opname
    /\ proj_data' = d
    /\ args' = a
    /\ name' = n
    /\ out' = v
    /\ raised' = "none"

----------------------------------------------------------------------------
(* Scoring calls *)

\* FinalLeagueScorer.calculate_projected_score(proj_data), proj_data over one of the
\* key sets KS
ScoreOffenseOn(KS) ==
    /\ op = "idle"
    /\ \E D \in KS :
       \E d \in RecordsOver(D, EndToEndOffense) :
         \E v \in Round1(FinalLeagueScorer_score(d), Scale) :
            Returns("FinalLeagueScorer.calculate_projected_score", d, NoArgs, NoName, v)
    /\ UNCHANGED <<patternVars, weeklyVars, returnVars, trackVars>>

ScoreOffense ==
    ScoreOffenseOn(KeySets(OffenseKnownKeys \cup OffenseUnknownKeys) \cup {DOMAIN EndToEndOffense})

\* KickerScorer.calculate_projected_score(proj_data), proj_data over one of the
\* key sets KS
ScoreKickerOn(KS) ==
    /\ op = "idle"
    /\ \E D \in KS : \E d \in DictsOver(D) :
         \E v \in Round1(KickerScorer_score(d), Scale) :
            Returns("KickerScorer.calculate_projected_score", d, NoArgs, NoName, v)
    /\ UNCHANGED <<patternVars, weeklyVars, returnVars, trackVars>>

ScoreKicker == ScoreKickerOn(KeySets(KickerKnownKeys \cup KickerUnknownKeys))

\* DefenseScorer.calculate_projected_score(proj_data), proj_data over one of the
\* key sets KS
ScoreDefenseOn(KS) ==
    /\ op = "idle"
    /\ \E D \in KS :
       \E d \in RecordsOver(D, EndToEndDefense) :
         \E v \in Round1(DefenseScorer_score(d), Scale) :
            Returns("DefenseScorer.calculate_projected_score", d, NoArgs, NoName, v)
    /\ UNCHANGED <<patternVars, weeklyVars, returnVars, trackVars>>

ScoreDefense ==
    ScoreDefenseOn(KeySets(DefenseKnownKeys \cup DefenseUnknownKeys) \cup {DOMAIN EndToEndDefense})

\* get_weekly_yardage_bonuses(rushing_yards, receiving_yards, week)
WeeklyYardageBonuses ==
    /\ op = "idle"
    /\ \E ry \in YardVals, cy \in YardVals :
         Returns("get_weekly_yardage_bonuses", EmptyDict, <<ry, cy>>, NoName,
                 get_weekly_yardage_bonuses(ry, cy))
    /\ UNCHANGED <<patternVars, weeklyVars, returnVars, trackVars>>

\* get_weekly_passing_bonuses(passing_yards, week)
WeeklyPassingBonuses ==
    /\ op = "idle"
    /\ \E y \in YardVals :
         Returns("get_weekly_passing_bonuses", EmptyDict, <<y>>, NoName,
                 get_weekly_passing_bonuses(y))
    /\ UNCHANGED <<patternVars, weeklyVars, returnVars, trackVars>>

\* The caller has consumed the result of the last call
Discard ==
    /\ op # "idle"
    /\ op' = "idle"
    /\ proj_data' = EmptyDict
    /\ args' = NoArgs
    /\ name' = NoName
    /\ out' = 0
    /\ raised' = "none"
    /\ UNCHANGED <<patternVars, weeklyVars, returnVars, trackVars>>

NextScore ==
    \/ Discard
    \/ ScoreOffense
    \/ ScoreKicker
    \/ ScoreDefense
    \/ WeeklyYardageBonuses
    \/ WeeklyPassingBonuses

SpecScore == Init /\ [][NextScore]_vars

----------------------------------------------------------------------------
(* Claims about the scorers, checked under SpecScore *)

IsOffenseCall == op = "FinalLeagueScorer.calculate_projected_score"
IsKickerCall == op = "KickerScorer.calculate_projected_score"
IsDefenseCall == op = "DefenseScorer.calculate_projected_score"

\* The rate of each stat the offense scorer reads, thousandths of a point
OffenseRate ==
    [k \in OffenseKnownKeys |->
        CASE k = "completions" -> 1000
          [] k = "passing_yards" -> 40
          [] k = "passing_tds" -> 4000
          [] k = "interceptions" -> -2000
          [] k = "sacks" -> -1000
          [] k = "rushing_attempts" -> 200
          [] k = "rushing_yards" -> 100
          [] k = "rushing_tds" -> 6000
          [] k = "receptions" -> 1000
          [] k = "receiving_yards" -> 100
          [] k = "receiving_tds" -> 6000
          [] k = "fumbles_lost" -> -2000]

\* Sum of rate x count over the stats present in d
OffenseLinear(d) ==
    SumOver(DOMAIN d \cap OffenseKnownKeys, [k \in OffenseKnownKeys |-> d[k] * OffenseRate[k]])

\* 0 below 100 yards, 5 from 100 up to 200, 15 from 200
CumulativeTier(y) ==
    IF y < 1000 THEN 0 ELSE IF y < 2000 THEN Points(5) ELSE Points(15)

\* 0 below 300 yards, 3 from 300 up to 400, 5 from 400
PassingTier(y) ==
    IF y < 3000 THEN 0 ELSE IF y < 4000 THEN Points(3) ELSE Points(5)

C2_PassingBonusExclusive ==
    /\ IsOffenseCall =>
         out \in Round1(OffenseLinear(proj_data)
                        + PassingTier(Get(proj_data, "passing_yards", 0))
                        + (IF Has(proj_data, "rushing_yards")
                           THEN rushing_yardage_bonus(FinalLeagueScorer_scoring_rules,
                                                      proj_data["rushing_yards"])
                           ELSE 0)
                        + (IF Has(proj_data, "receiving_yards")
                           THEN receiving_yardage_bonus(FinalLeagueScorer_scoring_rules,
                                                        proj_data["receiving_yards"])
                           ELSE 0),
                        Scale)
    /\ op = "get_weekly_passing_bonuses" => out = PassingTier(args[1])

\* 420 passing yards scored 16.8 + 5 and no 300-399 bonus.
C2_Witness ==
    /\ IsOffenseCall
    /\ DOMAIN proj_data = {"passing_yards"}
    /\ proj_data["passing_yards"] = 4200
    /\ out = Points(21) + 8 * (Scale \div 10)

\* The half-open reading of a band table: band i holds v when
\* low_i <= v < low_(i+1); the last band of the points-allowed table (35+) has
\* no upper end, the single 0-99 yards band ends below 100.
HalfOpenMatches(table, i, v, openEnded) ==
    /\ table[i][1] * 10 <= v
    /\ IF i < Len(table) THEN v < table[i + 1][1] * 10
       ELSE openEnded \/ v < (table[i][2] + 1) * 10

DefenseLinear(d) ==
    Get(d, "sacks", 0) * 1000 + Get(d, "interceptions", 0) * 2000
    + Get(d, "fumble_recoveries", 0) * 2000 + Get(d, "fumbles_forced", 0) * 1000
    + Get(d, "safeties", 0) * 2000 + Get(d, "defensive_tds", 0) * 6000
    + Get(d, "blocked_kicks", 0) * 2000

\* C4: for every non-negative points_allowed value, fractional values and
\* values above 100 included, the points-allowed lookup matches exactly one
\* band and adds exactly that band's value.
C4_ExactlyOnePointsAllowedBand ==
    (IsDefenseCall /\ Has(proj_data, "points_allowed")) =>
        LET pa == proj_data["points_allowed"]
            hits == {i \in 1..Len(points_allowed_scoring) :
                        band_matches(points_allowed_scoring[i], pa)}
        IN  /\ Cardinality(hits) = 1
            /\ \A i \in hits :
                 out \in Round1(DefenseLinear(proj_data)
                                + Bonus(points_allowed_scoring[i][3])
                                + band_lookup(yards_allowed_bonus,
                                              Get(proj_data, "yards_allowed",
                                                  default_yards_allowed)),
                                Scale)

\* C5: every tier-band lookup is inclusive at its lower bound and exclusive at
\* its upper bound, and no value matches two bands: in the defense tables a
\* value belongs to a band exactly when band_lower <= v < next_band_lower.
C5_HalfOpenBands ==
    IsDefenseCall =>
        LET pa == Get(proj_data, "points_allowed", default_points_allowed)
            ya == Get(proj_data, "yards_allowed", default_yards_allowed)
        IN  /\ \A i \in 1..Len(points_allowed_scoring) :
                 band_matches(points_allowed_scoring[i], pa)
                    <=> HalfOpenMatches(points_allowed_scoring, i, pa, TRUE)
            /\ \A i \in 1..Len(yards_allowed_bonus) :
                 band_matches(yards_allowed_bonus[i], ya)
                    <=> HalfOpenMatches(yards_allowed_bonus, i, ya, FALSE)

KickerBandPoints(d) ==
    Get(d, "fg_0_19", 0) * 3000 + Get(d, "fg_20_29", 0) * 3000
    + Get(d, "fg_30_39", 0) * 3000 + Get(d, "fg_40_49", 0) * 3000
    + Get(d, "fg_50plus", 0) * 5000

\* C9: the flat per-field-goal rate is applied to 'fg' only when no
\* distance-banded count is supplied; whenever any banded count is supplied
\* the field-goal points are the per-band sum alone.
C9_FlatRateOnlyWithoutBands ==
    IsKickerCall =>
        out \in Round1(Get(proj_data, "pat", 0) * 1000
                       + (IF DOMAIN proj_data \cap KickerBandKeys = {}
                          THEN Get(proj_data, "fg", 0) * 3200
                          ELSE KickerBandPoints(proj_data)),
                       Scale)

\* The record d without the key k
Without(d, k) == [x \in DOMAIN d \ {k} |-> d[x]]

\* The rounded scores the scorer called last can return for the record d
ScoreOf(d) ==
    IF IsOffenseCall THEN Round1(FinalLeagueScorer_score(d), Scale)
    ELSE Round1(KickerScorer_score(d), Scale)

KnownKeysOfCall == IF IsOffenseCall THEN OffenseKnownKeys ELSE KickerKnownKeys

----------------------------------------------------------------------------
(* saquon_scorer.py: per-touchdown length bonuses *)

\* Actor names as the play-by-play data spells them ("A.B"), as characters
ActorAB == <<"a", ".", "b">>
ActorBA == <<"b", ".", "a">>
Actors == {ActorAB, ActorBA}

Weeks == {1, 2}

\* Touchdown lengths on both sides of the 40 and 50 yard thresholds
TdYards == {39, 40, 45, 49, 50, 55}

\* play_type of a touchdown row: a rush, a reception, or a return
PlayTypes == {"run", "pass", "kickoff"}

\* The rows of pbp_reg with touchdown == 1
TdRows ==
    [week : Weeks, td_player_name : Actors, yards_gained : TdYards,
     play_type : PlayTypes]

\* A bag of rows: row |-> number of copies (rows with no copy left out)
AddRow(bag, row) == Put(bag, row, Get(bag, row, 0) + 1)

RECURSIVE BagsOfSize(_, _)
BagsOfSize(Rows, n) ==
    IF n = 0 THEN {EmptyDict}
    ELSE {AddRow(b, r) : b \in BagsOfSize(Rows, n - 1), r \in Rows}

BagsUpTo(Rows, n) == UNION {BagsOfSize(Rows, i) : i \in 0..n}

\* The weekly_reg row of one player-week: the reported aggregate counts
WeeklyRows ==
    [player_name : {ActorAB}, week : {1}, rushing_tds : {0, 1, 2},
     receiving_tds : {0}]

\* Mutant: a 50+ touchdown also collects the 40-49 bonus
td_length_bonus_cumulative(rules, yards, play_type) ==
    IF play_type = "run"
    THEN (IF yards >= 50 THEN rules.rushing_td_50plus_bonus ELSE 0)
         + (IF yards >= 40 THEN rules.rushing_td_40_49_bonus ELSE 0)
    ELSE IF play_type = "pass"
    THEN (IF yards >= 50 THEN rules.receiving_td_50plus_bonus ELSE 0)
         + (IF yards >= 40 THEN rules.receiving_td_40_49_bonus ELSE 0)
    ELSE 0

\* The body of the loop of get_weekly_td_bonuses: td_bonus of one touchdown row
td_length_bonus(rules, yards, play_type) ==
    IF play_type = "run"
    THEN IF yards >= 50 THEN rules.rushing_td_50plus_bonus
         ELSE IF yards >= 40 THEN rules.rushing_td_40_49_bonus
         ELSE 0
    ELSE IF play_type = "pass"
    THEN IF yards >= 50 THEN rules.receiving_td_50plus_bonus
         ELSE IF yards >= 40 THEN rules.receiving_td_40_49_bonus
         ELSE 0
    ELSE 0

\* get_weekly_td_bonuses(player_name, week): total_bonus over the player's
\* touchdown rows of the week
get_weekly_td_bonuses(pbp, player_name, week) ==
    LET player_tds == {r \in DOMAIN pbp :
                          r.week = week /\ r.td_player_name = player_name}
    IN  SumOver(player_tds,
                [r \in player_tds |->
                    pbp[r] * Bonus(td_length_bonus(weekly_scoring_rules,
                                                   r.yards_gained, r.play_type))])

\* saquon_scorer.FinalLeagueScorer.load_data: the season's data arrives
WeeklyLoadData ==
    /\ op = "idle"
    /\ pbp_reg = EmptyDict
    /\ weekly_reg = EmptyDict
    /\ pbp_reg' \in BagsUpTo(TdRows, MaxTdRows)
    /\ weekly_reg' \in WeeklyRows
    /\ UNCHANGED <<callVars, patternVars, returnVars, trackVars>>

\* get_weekly_td_bonuses(player_name, week)
WeeklyTdBonuses ==
    /\ op = "idle"
    /\ weekly_reg # EmptyDict
    /\ \E p \in Actors, w \in Weeks :
         Returns("get_weekly_td_bonuses", EmptyDict, <<w>>, p,
                 get_weekly_td_bonuses(pbp_reg, p, w))
    /\ UNCHANGED <<patternVars, weeklyVars, returnVars, trackVars>>

NextWeekly ==
    \/ Discard
    \/ WeeklyLoadData
    \/ WeeklyTdBonuses

SpecWeekly == Init /\ [][NextWeekly]_vars

\* 5 for a touchdown of 50 yards or more, else 3 for one of 40 or more, else 0
TdTier(yards) ==
    IF yards >= 50 THEN Points(5) ELSE IF yards >= 40 THEN Points(3) ELSE 0

\* The touchdown rows of the player and week of the call
CalledTds ==
    {r \in DOMAIN pbp_reg : r.week = args[1] /\ r.td_player_name = name}

\* C3: for every sequence of individual rushing/receiving touchdowns
\* get_weekly_td_bonuses returns the sum over the touchdowns of 5 if the length
\* is >= 50, else 3 if it is >= 40, else 0, whatever the aggregate
\* rushing_tds/receiving_tds counts of the stat record are.
C3_PerTouchdownBonus ==
    (op = "get_weekly_td_bonuses"
     /\ \A r \in CalledTds : r.play_type \in {"run", "pass"}) =>
        out = SumOver(CalledTds,
                      [r \in CalledTds |-> pbp_reg[r] * TdTier(r.yards_gained)])

\* One 45-yard rushing touchdown with a reported count of 2 yielded 3.
C3_Witness ==
    /\ op = "get_weekly_td_bonuses"
    /\ name = ActorAB
    /\ args = <<1>>
    /\ weekly_reg.rushing_tds = 2
    /\ pbp_reg = AddRow(EmptyDict, [week |-> 1, td_player_name |-> ActorAB,
                                    yards_gained |-> 45, play_type |-> "run"])
    /\ out = Points(3)

----------------------------------------------------------------------------
(* Historical patterns: fantasy_projections.py and td_pattern_analyzer.py *)

RECURSIVE Gcd(_, _)
Gcd(a, b) == IF b = 0 THEN a ELSE Gcd(b, a % b)

\* A float that is a ratio of two integers: <<numerator, denominator>> in
\* lowest terms, denominator positive
Ratio(n, d) == LET g == Gcd(Abs(n), d) IN <<n \div g, d \div g>>
RAdd(p, q) == Ratio(p[1] * q[2] + q[1] * p[2], p[2] * q[2])
RMul(p, q) == Ratio(p[1] * q[1], p[2] * q[2])
RInt(n) == <<n, 1>>
\* A value held in tenths
RTenths(t) == Ratio(t, 10)
\* round(q, 1) as a score
RRound1(q) == Round1(q[1], q[2])

\* Rows of the season with touchdown == 1 and a td_player_name
PbpTdYards == {39, 40, 49, 50}
PbpTdRows == [td_player_name : Actors, yards_gained : PbpTdYards]

\* Rows of the season with field_goal_attempt == 1
PbpFgDistances == {19, 20, 30, 40, 50}
PbpFgRows ==
    [kicker_player_name : {ActorAB}, kick_distance : PbpFgDistances,
     field_goal_result : {"made"}]
    \cup [kicker_player_name : {ActorAB}, kick_distance : {30},
          field_goal_result : {"missed"}]
    \cup [kicker_player_name : {ActorBA}, kick_distance : {30},
          field_goal_result : {"made"}]

\* The seasons the analyzers load: touchdown rows or field-goal rows
Seasons ==
    {[td |-> b, fg |-> EmptyDict] : b \in BagsUpTo(PbpTdRows, MaxPbpTds)}
    \cup {[td |-> EmptyDict, fg |-> b] : b \in BagsUpTo(PbpFgRows, MaxPbpFgs)}

\* len(df[...]): the number of rows of the bag that satisfy Keep
CountRows(bag, Keep(_)) ==
    LET rows == {r \in DOMAIN bag : Keep(r)}
    IN  SumOver(rows, [r \in rows |-> bag[r]])

\* Sum of a column over the rows that satisfy Keep
SumRows(bag, Keep(_), Col(_)) ==
    LET rows == {r \in DOMAIN bag : Keep(r)}
    IN  SumOver(rows, [r \in rows |-> bag[r] * Col(r)])

\* td_players['td_player_name'].unique()
td_players_unique(pbp) == {r.td_player_name : r \in DOMAIN pbp.td}

\* len(player_td_data)
total_tds(pbp, player) ==
    LET Is(r) == r.td_player_name = player IN CountRows(pbp.td, Is)

\* "if total_tds < 3: continue"
min_tds == 3

\* Mutant: players with two touchdowns kept
td_qualifies_two(total) == ~(total < 2)

td_qualifies(total) == ~(total < min_tds)

\* (yards_gained >= 40) & (yards_gained < 50), and yards_gained >= 50
in_td_40_49(yards) == yards >= 40 /\ yards < 50

\* Mutant: the 50+ band starts at 40 yards and overlaps the 40-49 band
in_td_50_plus_from_40(yards) == yards >= 40

in_td_50_plus(yards) == yards >= 50

td_40_49(pbp, player) ==
    LET Is(r) == r.td_player_name = player /\ in_td_40_49(r.yards_gained)
    IN  CountRows(pbp.td, Is)

td_50_plus(pbp, player) ==
    LET Is(r) == r.td_player_name = player /\ in_td_50_plus(r.yards_gained)
    IN  CountRows(pbp.td, Is)

\* b updated with the entries of a (dict item assignment in a loop)
Merge(a, b) ==
    [k \in DOMAIN a \cup DOMAIN b |-> IF k \in DOMAIN a THEN a[k] ELSE b[k]]

\* fantasy_projections.analyze_td_patterns: the entries it assigns
analyze_td_patterns(pbp) ==
    LET players == {p \in td_players_unique(pbp) : td_qualifies(total_tds(pbp, p))}
    IN  [p \in players |->
            [pct_40_49 |-> Ratio(td_40_49(pbp, p), total_tds(pbp, p)),
             pct_50_plus |-> Ratio(td_50_plus(pbp, p), total_tds(pbp, p))]]

\* td_pattern_analyzer.analyze_td_patterns: the entries it assigns
tpa_analyze_td_patterns(pbp) ==
    LET players == {p \in td_players_unique(pbp) : td_qualifies(total_tds(pbp, p))}
        Yards(r) == r.yards_gained
    IN  [p \in players |->
            LET Is(r) == r.td_player_name = p IN
            [total_tds |-> total_tds(pbp, p),
             td_40_49 |-> td_40_49(pbp, p),
             td_50_plus |-> td_50_plus(pbp, p),
             pct_40_49 |-> Ratio(td_40_49(pbp, p), total_tds(pbp, p)),
             pct_50_plus |-> Ratio(td_50_plus(pbp, p), total_tds(pbp, p)),
             avg_td_length |-> Ratio(SumRows(pbp.td, Is, Yards), total_tds(pbp, p))]]

\* fgs['kicker_player_name'].unique(), NaN skipped
kickers_unique(pbp) == {r.kicker_player_name : r \in DOMAIN pbp.fg}

\* len(made_fgs[lo <= kick_distance < hi]); hi = 0 stands for no upper end
made_between(pbp, kicker, lo, hi) ==
    LET Is(r) == /\ r.kicker_player_name = kicker
                 /\ r.field_goal_result = "made"
                 /\ r.kick_distance >= lo
                 /\ (hi = 0 \/ r.kick_distance < hi)
    IN  CountRows(pbp.fg, Is)

\* len(made_fgs[kick_distance < hi])
made_below(pbp, kicker, hi) ==
    LET Is(r) == /\ r.kicker_player_name = kicker
                 /\ r.field_goal_result = "made"
                 /\ r.kick_distance < hi
    IN  CountRows(pbp.fg, Is)

total_made(pbp, kicker) ==
    LET Is(r) == r.kicker_player_name = kicker /\ r.field_goal_result = "made"
    IN  CountRows(pbp.fg, Is)

\* "if total_made < 5: continue"
min_made_fgs == 5

fg_qualifies(total) == ~(total < min_made_fgs)

\* fantasy_projections.analyze_fg_patterns: the entries it assigns
analyze_fg_patterns(pbp) ==
    LET kickers == {k \in kickers_unique(pbp) : fg_qualifies(total_made(pbp, k))}
    IN  [k \in kickers |->
            LET n == total_made(pbp, k) IN
            [pct_0_29 |-> Ratio(made_below(pbp, k, 30), n),
             pct_30_39 |-> Ratio(made_between(pbp, k, 30, 40), n),
             pct_40_49 |-> Ratio(made_between(pbp, k, 40, 50), n),
             pct_50_plus |-> Ratio(made_between(pbp, k, 50, 0), n)]]

\* td_pattern_analyzer.analyze_fg_patterns: the entries it assigns
tpa_analyze_fg_patterns(pbp) ==
    LET kickers == {k \in kickers_unique(pbp) : fg_qualifies(total_made(pbp, k))}
        Dist(r) == r.kick_distance
    IN  [k \in kickers |->
            LET n == total_made(pbp, k)
                Made(r) == r.kicker_player_name = k /\ r.field_goal_result = "made"
            IN
            [total_made |-> n,
             fg_0_19 |-> made_below(pbp, k, 20),
             fg_20_29 |-> made_between(pbp, k, 20, 30),
             fg_30_39 |-> made_between(pbp, k, 30, 40),
             fg_40_49 |-> made_between(pbp, k, 40, 50),
             fg_50_plus |-> made_between(pbp, k, 50, 0),
             pct_0_19 |-> Ratio(made_below(pbp, k, 20), n),
             pct_20_29 |-> Ratio(made_between(pbp, k, 20, 30), n),
             pct_30_39 |-> Ratio(made_between(pbp, k, 30, 40), n),
             pct_40_49 |-> Ratio(made_between(pbp, k, 40, 50), n),
             pct_50_plus |-> Ratio(made_between(pbp, k, 50, 0), n),
             avg_distance |-> Ratio(SumRows(pbp.fg, Made, Dist), n)]]

----------------------------------------------------------------------------
(* Pattern lookups *)

\* str.split(): the maximal runs of non-space characters of s
RECURSIVE SplitAcc(_, _, _, _)
SplitAcc(s, i, cur, acc) ==
    IF i > Len(s)
    THEN IF cur = <<>> THEN acc ELSE Append(acc, cur)
    ELSE IF s[i] = " "
    THEN SplitAcc(s, i + 1, <<>>, IF cur = <<>> THEN acc ELSE Append(acc, cur))
    ELSE SplitAcc(s, i + 1, Append(cur, s[i]), acc)

str_split(s) == SplitAcc(s, 1, <<>>, <<>>)

\* ' ' in s
has_space(s) == \E i \in 1..Len(s) : s[i] = " "

\* f"{parts[0][0]}.{parts[1]}"; IndexError when parts has fewer than two items
short_name_raises(parts) == Len(parts) < 2
short_name(parts) == <<parts[1][1], ".">> \o parts[2]

\* The result of a call: the exception raised, or the values it can return
Raise(e) == [raised |-> e, vals |-> {0}]
Return(vs) == [raised |-> "none", vals |-> vs]

\* "round(projected_tds * 0.05 * 3 + projected_tds * 0.03 * 5, 1)"
default_td_bonus(projected_tds) ==
    RRound1(RAdd(RMul(RMul(projected_tds, Ratio(5, 100)), RInt(3)),
                 RMul(RMul(projected_tds, Ratio(3, 100)), RInt(5))))

\* projected_tds * pct_40_49 * 3 + projected_tds * pct_50_plus * 5, rounded
pattern_td_bonus(pattern, projected_tds) ==
    RRound1(RAdd(RMul(RMul(projected_tds, pattern.pct_40_49), RInt(3)),
                 RMul(RMul(projected_tds, pattern.pct_50_plus), RInt(5))))

\* fantasy_projections.get_player_td_bonus(player_name, projected_tds)
get_player_td_bonus(patterns, player_name, projected_tds) ==
    IF has_space(player_name)
    THEN LET parts == str_split(player_name)
         IN  IF short_name_raises(parts) THEN Raise("IndexError")
             ELSE IF short_name(parts) \in DOMAIN patterns
             THEN Return(pattern_td_bonus(patterns[short_name(parts)], projected_tds))
             ELSE Return(default_td_bonus(projected_tds))
    ELSE Return(default_td_bonus(projected_tds))

\* "fg_points = projected_fgs * 3.3  # Assume average"
default_fg_rate == Ratio(33, 10)

\* fantasy_projections.get_kicker_points(kicker_name, projected_fgs, projected_pats)
get_kicker_points(patterns, kicker_name, projected_fgs, projected_pats) ==
    LET pat_points == RMul(projected_pats, RInt(1))
        default == RRound1(RAdd(pat_points, RMul(projected_fgs, default_fg_rate)))
    IN  IF has_space(kicker_name)
        THEN LET parts == str_split(kicker_name)
             IN  IF short_name_raises(parts) THEN Raise("IndexError")
                 ELSE IF short_name(parts) \in DOMAIN patterns
                 THEN LET pattern == patterns[short_name(parts)]
                          fg_points ==
                            RAdd(RMul(RMul(projected_fgs,
                                           RAdd(RAdd(pattern.pct_0_29, pattern.pct_30_39),
                                                pattern.pct_40_49)),
                                      RInt(3)),
                                 RMul(RMul(projected_fgs, pattern.pct_50_plus), RInt(5)))
                      IN  Return(RRound1(RAdd(pat_points, fg_points)))
                 ELSE Return(default)
        ELSE Return(default)

\* td_pattern_analyzer.get_player_td_bonus_expectation(player_name, projected_tds)
get_player_td_bonus_expectation(patterns, player_name, projected_tds) ==
    LET avg_40_49 == IF player_name \notin DOMAIN patterns THEN Ratio(5, 100)
                     ELSE patterns[player_name].pct_40_49
        avg_50_plus == IF player_name \notin DOMAIN patterns THEN Ratio(3, 100)
                       ELSE patterns[player_name].pct_50_plus
        expected_40_49_tds == RMul(projected_tds, avg_40_49)
        expected_50_plus_tds == RMul(projected_tds, avg_50_plus)
    IN  RRound1(RAdd(RMul(expected_40_49_tds, RInt(3)),
                     RMul(expected_50_plus_tds, RInt(5))))

\* td_pattern_analyzer.get_kicker_fg_distribution(kicker_name, projected_fgs)
get_kicker_fg_distribution(patterns, kicker_name, projected_fgs) ==
    LET known == kicker_name \in DOMAIN patterns
        Pct(field, avg) == IF known THEN patterns[kicker_name][field] ELSE avg
        fg_0_19 == RMul(projected_fgs, Pct("pct_0_19", Ratio(5, 100)))
        fg_20_29 == RMul(projected_fgs, Pct("pct_20_29", Ratio(20, 100)))
        fg_30_39 == RMul(projected_fgs, Pct("pct_30_39", Ratio(35, 100)))
        fg_40_49 == RMul(projected_fgs, Pct("pct_40_49", Ratio(30, 100)))
        fg_50_plus == RMul(projected_fgs, Pct("pct_50_plus", Ratio(10, 100)))
    IN  RRound1(RAdd(RMul(RAdd(RAdd(RAdd(fg_0_19, fg_20_29), fg_30_39), fg_40_49),
                          RInt(3)),
                     RMul(fg_50_plus, RInt(5))))

----------------------------------------------------------------------------
(* Inputs of the pattern lookups *)

NameChars == {" ", "a", "b"}

RECURSIVE NamesOfLen(_)
NamesOfLen(n) ==
    IF n = 0 THEN {<<>>}
    ELSE {Append(s, c) : s \in NamesOfLen(n - 1), c \in NameChars}

\* Every name of at most MaxNameLen characters
AllNames == UNION {NamesOfLen(n) : n \in 0..MaxNameLen}

\* The full names "a b" and "b a" of the two actors, and the short name "a.b"
FullAB == <<"a", " ", "b">>
FullBA == <<"b", " ", "a">>
QueryNames == {FullAB, FullBA, ActorAB}

\* Projected touchdowns, field goals and PATs, in tenths
ProjTdVals == {7, 10, 25}
ProjFgVals == {10, 25}
ProjPatVals == {0, 15}

----------------------------------------------------------------------------
(* Actions of the pattern analyzers *)

\* A call that returned one of the values of res, or raised
Completes(opname, a, n, res) ==
    /\ op = "idle"
    /\ op' = opname
    /\ proj_data' = EmptyDict
    /\ args' = a
    /\ name' = n
    /\ raised' = res.raised
    /\ out' \in res.vals

\* fantasy_projections.HistoricalPatternAnalyzer.load_data
LoadData ==
    /\ op = "idle"
    /\ IF ~data_loaded
       THEN /\ td_patterns' = Merge(analyze_td_patterns(pbp_data), td_patterns)
            /\ fg_patterns' = Merge(analyze_fg_patterns(pbp_data), fg_patterns)
            /\ data_loaded' = TRUE
       ELSE UNCHANGED fpVars
    /\ UNCHANGED <<callVars, pbp_data, tpaVars, weeklyVars, returnVars, trackVars>>

\* get_player_td_bonus(player_name, projected_tds)
GetPlayerTdBonus(Names) ==
    /\ \E n \in Names, tds \in ProjTdVals :
         Completes("get_player_td_bonus", <<tds>>, n,
                   get_player_td_bonus(td_patterns, n, RTenths(tds)))
    /\ UNCHANGED <<patternVars, weeklyVars, returnVars, trackVars>>

\* get_kicker_points(kicker_name, projected_fgs, projected_pats)
GetKickerPoints(Names) ==
    /\ \E n \in Names, fgs \in ProjFgVals, pats \in ProjPatVals :
         Completes("get_kicker_points", <<fgs, pats>>, n,
                   get_kicker_points(fg_patterns, n, RTenths(fgs), RTenths(pats)))
    /\ UNCHANGED <<patternVars, weeklyVars, returnVars, trackVars>>

\* td_pattern_analyzer.py, __main__: analyzer.load_data()
TpaLoadData ==
    /\ op = "idle"
    /\ tpa_pc = "new"
    /\ tpa_pc' = "loaded"
    /\ UNCHANGED <<callVars, pbp_data, fpVars, tpa_td_patterns, tpa_fg_patterns, weeklyVars, returnVars, trackVars>>

\* td_pattern_analyzer.py, __main__: analyzer.analyze_td_patterns()
TpaAnalyzeTdPatterns ==
    /\ op = "idle"
    /\ tpa_pc = "loaded"
    /\ tpa_td_patterns' = Merge(tpa_analyze_td_patterns(pbp_data), tpa_td_patterns)
    /\ tpa_pc' = "td"
    /\ UNCHANGED <<callVars, pbp_data, fpVars, tpa_fg_patterns, weeklyVars, returnVars, trackVars>>

\* td_pattern_analyzer.py, __main__: analyzer.analyze_fg_patterns()
TpaAnalyzeFgPatterns ==
    /\ op = "idle"
    /\ tpa_pc = "td"
    /\ tpa_fg_patterns' = Merge(tpa_analyze_fg_patterns(pbp_data), tpa_fg_patterns)
    /\ tpa_pc' = "done"
    /\ UNCHANGED <<callVars, pbp_data, fpVars, tpa_td_patterns, weeklyVars, returnVars, trackVars>>

\* get_player_td_bonus_expectation(player_name, projected_tds), once the
\* script has analyzed the touchdowns
TpaGetPlayerTdBonusExpectation ==
    /\ tpa_pc \in {"td", "done"}
    /\ \E n \in QueryNames, tds \in ProjTdVals :
         Completes("get_player_td_bonus_expectation", <<tds>>, n,
                   Return(get_player_td_bonus_expectation(tpa_td_patterns, n,
                                                          RTenths(tds))))
    /\ UNCHANGED <<patternVars, weeklyVars, returnVars, trackVars>>

\* get_kicker_fg_distribution(kicker_name, projected_fgs), once the script has
\* analyzed the field goals
TpaGetKickerFgDistribution ==
    /\ tpa_pc = "done"
    /\ \E n \in QueryNames, fgs \in ProjFgVals :
         Completes("get_kicker_fg_distribution", <<fgs>>, n,
                   Return(get_kicker_fg_distribution(tpa_fg_patterns, n,
                                                     RTenths(fgs))))
    /\ UNCHANGED <<patternVars, weeklyVars, returnVars, trackVars>>

\* The analyzers start on a season of the stats provider
InitPattern ==
    /\ InitCall
    /\ InitWeekly
    /\ InitReturn
    /\ InitTracking
    /\ pbp_data \in Seasons
    /\ td_patterns = EmptyDict
    /\ fg_patterns = EmptyDict
    /\ data_loaded = FALSE
    /\ tpa_pc = "new"
    /\ tpa_td_patterns = EmptyDict
    /\ tpa_fg_patterns = EmptyDict

NextPattern ==
    \/ Discard
    \/ LoadData
    \/ GetPlayerTdBonus(QueryNames)
    \/ GetKickerPoints(QueryNames)
    \/ TpaLoadData
    \/ TpaAnalyzeTdPatterns
    \/ TpaAnalyzeFgPatterns
    \/ TpaGetPlayerTdBonusExpectation
    \/ TpaGetKickerFgDistribution

SpecPattern == InitPattern /\ [][NextPattern]_vars

\* Seasons for the name lookups: no play, one qualifying touchdown scorer, one
\* qualifying kicker
NameSeasons ==
    {[td |-> EmptyDict, fg |-> EmptyDict],
     [td |-> AddRow(AddRow(AddRow(EmptyDict,
                [td_player_name |-> ActorAB, yards_gained |-> 39]),
                [td_player_name |-> ActorAB, yards_gained |-> 40]),
                [td_player_name |-> ActorAB, yards_gained |-> 50]),
      fg |-> EmptyDict],
     [td |-> EmptyDict,
      fg |-> AddRow(AddRow(AddRow(AddRow(AddRow(EmptyDict,
                [kicker_player_name |-> ActorAB, kick_distance |-> 19,
                 field_goal_result |-> "made"]),
                [kicker_player_name |-> ActorAB, kick_distance |-> 20,
                 field_goal_result |-> "made"]),
                [kicker_player_name |-> ActorAB, kick_distance |-> 30,
                 field_goal_result |-> "made"]),
                [kicker_player_name |-> ActorAB, kick_distance |-> 40,
                 field_goal_result |-> "made"]),
                [kicker_player_name |-> ActorAB, kick_distance |-> 50,
                 field_goal_result |-> "made"])]}

InitNames ==
    /\ InitCall
    /\ InitWeekly
    /\ InitReturn
    /\ InitTracking
    /\ pbp_data \in NameSeasons
    /\ td_patterns = EmptyDict
    /\ fg_patterns = EmptyDict
    /\ data_loaded = FALSE
    /\ tpa_pc = "new"
    /\ tpa_td_patterns = EmptyDict
    /\ tpa_fg_patterns = EmptyDict

NextNames ==
    \/ Discard
    \/ LoadData
    \/ GetPlayerTdBonus(AllNames)
    \/ GetKickerPoints(AllNames)

SpecNames == InitNames /\ [][NextNames]_vars

----------------------------------------------------------------------------
(* Claims about the pattern model, checked under SpecPattern and SpecNames *)

\* The number of touchdown rows of an actor in the season
RecordedTds(a) ==
    Cardinality({<<r, i>> \in (DOMAIN pbp_data.td) \X (1..MaxPbpTds + 1) :
                    r.td_player_name = a /\ i <= pbp_data.td[r]})

\* n*0.05*3 + n*0.03*5 = 0.3 n rounded to one decimal, n in tenths
LeagueAverageTdBonus(tds) == Round1(3 * tds, 100)

\* The name is a spelling of the actor: the actor's key itself, or a name
\* whose first initial and second word give the key
Spells(n, a) ==
    \/ n = a
    \/ /\ has_space(n)
       /\ Len(str_split(n)) >= 2
       /\ short_name(str_split(n)) = a

\* C6: after analyze_td_patterns an actor is a key of td_patterns if and only
\* if the actor has at least 3 recorded touchdowns; for an actor with fewer
\* than 3 the expected TD bonus for projected count n is the league-average
\* value n*0.05*3 + n*0.03*5 rounded to one decimal, whatever the lengths of
\* the actor's own touchdowns.
C6_FallbackBelowThreshold ==
    /\ data_loaded =>
         \A a \in Actors : a \in DOMAIN td_patterns <=> RecordedTds(a) >= 3
    /\ tpa_pc \in {"td", "done"} =>
         \A a \in Actors : a \in DOMAIN tpa_td_patterns <=> RecordedTds(a) >= 3
    /\ (op = "get_player_td_bonus" /\ data_loaded) =>
         \A a \in Actors :
            (Spells(name, a) /\ RecordedTds(a) < 3) =>
                out \in LeagueAverageTdBonus(args[1])
    /\ op = "get_player_td_bonus_expectation" =>
         \A a \in Actors :
            (name = a /\ RecordedTds(a) < 3) =>
                out \in LeagueAverageTdBonus(args[1])

\* An actor whose two recorded touchdowns were both of 50 yards got the
\* league-average 0.3 for one projected touchdown, not 5.0.
C6_Witness ==
    /\ op = "get_player_td_bonus"
    /\ data_loaded
    /\ name = FullAB
    /\ args = <<10>>
    /\ pbp_data.td = AddRow(AddRow(EmptyDict,
                        [td_player_name |-> ActorAB, yards_gained |-> 50]),
                        [td_player_name |-> ActorAB, yards_gained |-> 50])
    /\ out = 3 * (Scale \div 10)

\* The name resolves to a key of the table
Resolves(n, table) ==
    /\ has_space(n)
    /\ Len(str_split(n)) >= 2
    /\ short_name(str_split(n)) \in DOMAIN table

\* C7: for a kicker that is not in the field-goal pattern table the expected
\* kicker points are p*1 plus f spread over the league-average bands at 3
\* points under 50 yards and 5 points from 50: p + 3.2*f rounded to one
\* decimal.
C7_UnknownKickerLeagueAverage ==
    (op = "get_kicker_points" /\ raised = "none" /\ ~Resolves(name, fg_patterns)) =>
        out \in Round1(100 * args[2] + 320 * args[1], 1000)

\* C8: for every actor name (a single token, more than two tokens, leading or
\* trailing whitespace) get_player_td_bonus and get_kicker_points return a
\* value without raising, and a name that resolves to no key of the table
\* gets the fallback value (for the kicker, the value of the lookup's default
\* branch).
C8_NameLookupNeverRaises ==
    /\ op = "get_player_td_bonus" =>
         /\ raised = "none"
         /\ ~Resolves(name, td_patterns) => out \in LeagueAverageTdBonus(args[1])
    /\ op = "get_kicker_points" =>
         /\ raised = "none"
         /\ ~Resolves(name, fg_patterns) =>
                out \in Round1(100 * args[2] + 330 * args[1], 1000)

----------------------------------------------------------------------------
(* DefenseScorer: missing points_allowed / yards_allowed *)

\* The record with 20 points allowed and 300 yards allowed filled in where the
\* key is missing
WithLeagueAverage(d) ==
    LET d1 == IF Has(d, "points_allowed") THEN d ELSE Put(d, "points_allowed", 200)
    IN  IF Has(d1, "yards_allowed") THEN d1 ELSE Put(d1, "yards_allowed", 3000)

\* C11: DefenseScorer.calculate_projected_score on a record without
\* points_allowed and/or yards_allowed returns the score of the same record
\* with points_allowed = 20 and/or yards_allowed = 300 filled in, and never the
\* score the record would have with 0 points or 0 yards allowed.
C11_DefenseDefaults ==
    (IsDefenseCall
     /\ ~(Has(proj_data, "points_allowed") /\ Has(proj_data, "yards_allowed"))) =>
        /\ out \in Round1(DefenseScorer_score(WithLeagueAverage(proj_data)), Scale)
        /\ ~Has(proj_data, "points_allowed") =>
              out \notin Round1(DefenseScorer_score(Put(proj_data, "points_allowed", 0)), Scale)
        /\ ~Has(proj_data, "yards_allowed") =>
              out \notin Round1(DefenseScorer_score(Put(proj_data, "yards_allowed", 0)), Scale)

\* A record with one sack and neither key scored 1 + 1 (14-20 band) + 0.
C11_Witness ==
    /\ IsDefenseCall
    /\ DOMAIN proj_data = {"sacks"}
    /\ proj_data["sacks"] = 10
    /\ out = Points(2)

----------------------------------------------------------------------------
(* Offense scorer: the sack penalty *)

\* C12: the sack penalty enters an offensive score only when the player's
\* position is QB: for a non-QB stat record with the 'sacks' key set,
\* calculate_projected_score returns the same score as with sacks = 0.
C12_SackPenaltyQuarterbackOnly ==
    (IsOffenseCall
     /\ Has(proj_data, "sacks") /\ Has(proj_data, "position")
     /\ proj_data["position"] # "QB") =>
        out \in Round1(FinalLeagueScorer_score(Put(proj_data, "sacks", 0)), Scale)

----------------------------------------------------------------------------
(* Band tables: configuration-time validity *)

\* The values, in tenths, from the lowest edge of a table to its highest
BandRange(table) == (table[1][1] * 10)..(table[Len(table)][2] * 10)

\* The bands of a table neither overlap nor leave a value between its lowest
\* and its highest edge unmatched
BandsExhaustiveAndDisjoint(table) ==
    \A v \in BandRange(table) :
        Cardinality({i \in 1..Len(table) : band_matches(table[i], v)}) = 1

\* C20: a rule set whose tier bands overlap or are non-exhaustive is rejected
\* when the scorer is constructed: no scorer holding such a band table ever
\* reaches a scoring call.
C20_InvalidBandsRejected ==
    IsDefenseCall =>
        /\ BandsExhaustiveAndDisjoint(points_allowed_scoring)
        /\ BandsExhaustiveAndDisjoint(yards_allowed_bonus)

----------------------------------------------------------------------------
(* saquon_scorer.py: calculate_weekly_score *)

\* Columns of weekly_reg in one player-week row beyond player_name and week
MaxWeekCols == 1

\* Rows of pbp_reg in the data the weekly score is computed from
MaxWeekPbpRows == 1

\* basic_stats of calculate_weekly_score
basic_stats ==
    {"completions", "passing_yards", "passing_tds", "interceptions", "sacks",
     "carries", "rushing_yards", "rushing_tds", "receptions",
     "receiving_yards", "receiving_tds", "fumbles_lost"}

fumble_columns ==
    {"fumbles_lost", "rushing_fumbles_lost", "receiving_fumbles_lost",
     "sack_fumbles_lost"}

\* possible_cols of get_two_point_conversions
two_point_columns ==
    {"passing_2pt_conversions", "rushing_2pt_conversions",
     "receiving_2pt_conversions"}

WeekColumns == basic_stats \cup fumble_columns \cup two_point_columns \cup {"position"}

\* The values of a weekly_reg column: whole counts and yards, in tenths (a
\* NaN cell reads as 0 through fillna)
WeekColVals(c) ==
    IF c = "position" THEN {"QB", "RB"}
    ELSE IF c = "passing_yards" THEN {10, 3000}
    ELSE IF c \in {"rushing_yards", "receiving_yards"} THEN {-30, 10, 1000}
    ELSE {0, 10}

RECURSIVE WeekRowsOver(_, _)
WeekRowsOver(base, C) ==
    IF C = {} THEN {base}
    ELSE LET c == CHOOSE x \in C : TRUE
         IN  {Put(r, c, v) : r \in WeekRowsOver(base, C \ {c}), v \in WeekColVals(c)}

\* The weekly_reg row of player a.b in week 1 with at most MaxWeekCols columns
WeekStatRows ==
    UNION {WeekRowsOver([player_name |-> ActorAB, week |-> 1], C) :
              C \in {S \in SUBSET WeekColumns : Cardinality(S) <= MaxWeekCols}}

\* Rows of pbp_reg: a touchdown of the player, or a fumble
WeekPbpRows ==
    [week : {1}, td_player_name : Actors, yards_gained : {45},
     play_type : {"run", "pass"}, fumbled_1_player_name : {NoName},
     fumble_lost : {0}]
    \cup
    [week : {1}, td_player_name : {NoName}, yards_gained : {0},
     play_type : {"run"}, fumbled_1_player_name : Actors, fumble_lost : {0, 1}]

\* get_fumbles_from_pbp(player_name, week): len(fumbles)
get_fumbles_from_pbp(pbp, player_name, week) ==
    LET fumbles == {r \in DOMAIN pbp :
                       /\ r.week = week
                       /\ Has(r, "fumbled_1_player_name")
                       /\ r.fumbled_1_player_name = player_name
                       /\ r.fumble_lost = 1}
    IN  SumOver(fumbles, [r \in fumbles |-> pbp[r]])

\* get_two_point_conversions(player_weekly)
get_two_point_conversions(row) ==
    LET cols == two_point_columns \cap DOMAIN row
    IN  SumOver(cols, [c \in cols |-> row[c]])

\* "if stats[k] > 0: score += stats[k] * rate"
PositiveTerm(stats, k, rate) == IF stats[k] > 0 THEN stats[k] * rate ELSE 0

\* "return score, {...}": the running total as it is returned
weekly_score_total(parts) == SumOver(DOMAIN parts, parts)

\* calculate_weekly_score(player_name, week): the score returned
calculate_weekly_score(weekly, pbp, player_name, week) ==
    IF ~(weekly # EmptyDict /\ weekly.player_name = player_name /\ weekly.week = week)
    THEN 0
    ELSE
    LET r == weekly_scoring_rules
        in_cols == {c \in fumble_columns \cap DOMAIN weekly : weekly[c] > 0}
        col_fumbles == SumOver(in_cols, [c \in in_cols |-> weekly[c]])
        fumbles_lost_pbp == 10 * get_fumbles_from_pbp(pbp, player_name, week)
        total_fumbles_lost ==
            IF fumbles_lost_pbp > 0 /\ col_fumbles = 0 THEN fumbles_lost_pbp
            ELSE col_fumbles
        stats == [k \in basic_stats \cup {"two_point_conversions"} |->
                    IF k = "fumbles_lost" THEN total_fumbles_lost
                    ELSE IF k = "two_point_conversions"
                         THEN get_two_point_conversions(weekly)
                    ELSE Get(weekly, k, 0)]
        player_position == Get(weekly, "position", "None")
        parts ==
            [completions |-> PositiveTerm(stats, "completions", r.completion),
             passing_yards |-> PositiveTerm(stats, "passing_yards", r.passing_yard),
             passing_yardage_bonus |->
                 IF stats["passing_yards"] > 0
                 THEN get_weekly_passing_bonuses(stats["passing_yards"]) ELSE 0,
             passing_tds |-> PositiveTerm(stats, "passing_tds", r.passing_td),
             interceptions |-> PositiveTerm(stats, "interceptions", r.interception),
             sacks |-> IF stats["sacks"] > 0 /\ player_position = "QB"
                       THEN stats["sacks"] * r.sack ELSE 0,
             carries |-> PositiveTerm(stats, "carries", r.rushing_attempt),
             rushing_yards |-> PositiveTerm(stats, "rushing_yards", r.rushing_yard),
             rushing_tds |-> PositiveTerm(stats, "rushing_tds", r.rushing_td),
             receptions |-> PositiveTerm(stats, "receptions", r.reception),
             receiving_yards |-> PositiveTerm(stats, "receiving_yards", r.receiving_yard),
             receiving_tds |-> PositiveTerm(stats, "receiving_tds", r.receiving_td),
             two_point_conversions |->
                 PositiveTerm(stats, "two_point_conversions", r.two_point_conversion),
             fumbles_lost |-> PositiveTerm(stats, "fumbles_lost", r.fumble_lost),
             td_length_bonuses |-> get_weekly_td_bonuses(pbp, player_name, week),
             yardage_bonuses |->
                 get_weekly_yardage_bonuses(stats["rushing_yards"],
                                            stats["receiving_yards"])]
    IN  weekly_score_total(parts)

\* saquon_scorer.FinalLeagueScorer.load_data, for the weekly score
WeekScoreLoadData ==
    /\ op = "idle"
    /\ pbp_reg = EmptyDict
    /\ weekly_reg = EmptyDict
    /\ pbp_reg' \in BagsUpTo(WeekPbpRows, MaxWeekPbpRows)
    /\ weekly_reg' \in WeekStatRows
    /\ UNCHANGED <<callVars, patternVars, returnVars, trackVars>>

\* calculate_weekly_score(player_name, week)
CalculateWeeklyScore ==
    /\ op = "idle"
    /\ weekly_reg # EmptyDict
    /\ \E p \in Actors, w \in Weeks :
         Returns("calculate_weekly_score", EmptyDict, <<w>>, p,
                 calculate_weekly_score(weekly_reg, pbp_reg, p, w))
    /\ UNCHANGED <<patternVars, weeklyVars, returnVars, trackVars>>

NextWeekScore ==
    \/ Discard
    \/ WeekScoreLoadData
    \/ CalculateWeeklyScore

SpecWeekScore == Init /\ [][NextWeekScore]_vars

\* The entry points that publish a point total
PublishesPointTotal ==
    op \in {"FinalLeagueScorer.calculate_projected_score",
            "KickerScorer.calculate_projected_score",
            "DefenseScorer.calculate_projected_score",
            "calculate_weekly_score", "get_player_td_bonus", "get_kicker_points"}

\* C15: every point total published by a scoring or projection entry point
\* is rounded to one decimal place, i.e. is an integer multiple of 0.1.
C15_PublishedTotalsRounded ==
    PublishesPointTotal => out % (Scale \div 10) = 0

----------------------------------------------------------------------------
(* fantasy_projections.py: DefenseReturnAnalyzer and get_week_projections *)

\* Return plays in the season the return analyzer loads
MaxReturnPlays == 2

\* Rows the scraper finds for a week, all positions together
MaxScraped == 1

Teams == {"PHI", "DAL"}

\* Kickoff and punt rows of the season: the kicking team and the return yards
ReturnPlays == [posteam : Teams, return_yards : {0, 25, 80}]

\* The games of the season: (game_id, home_team, away_team)
GameSets ==
    {{},
     {[game_id |-> 1, home_team |-> "PHI", away_team |-> "DAL"]},
     {[game_id |-> 1, home_team |-> "PHI", away_team |-> "DAL"],
      [game_id |-> 2, home_team |-> "DAL", away_team |-> "PHI"]}}

ReturnSeasons ==
    [returns : BagsUpTo(ReturnPlays, MaxReturnPlays), games : GameSets]

\* round(num/den, 1) of a value of num/den yards, in tenths of a yard
RoundTenths(num, den) == {v \div (Scale \div 10) : v \in Round1(num, den)}

\* "team_return_yards_allowed[kicking_team] += play['return_yards']" over the
\* plays with return_yards > 0
team_return_yards_allowed(season, team) ==
    LET plays == {r \in DOMAIN season.returns :
                     r.return_yards > 0 /\ r.posteam = team}
    IN  SumOver(plays, [r \in plays |-> season.returns[r] * r.return_yards])

\* "team_games[game['home_team']] += 1; team_games[game['away_team']] += 1"
team_games(season, team) ==
    Cardinality({g \in season.games : g.home_team = team})
    + Cardinality({g \in season.games : g.away_team = team})

\* The teams that get an entry: a return of more than 0 yards allowed, and a game
teams_with_average(season) ==
    {t \in Teams :
        /\ \E r \in DOMAIN season.returns : r.return_yards > 0 /\ r.posteam = t
        /\ team_games(season, t) > 0}

\* DefenseReturnAnalyzer.load_data: the tables return_yards_allowed can become
analyze_return_yards(season) ==
    LET T == teams_with_average(season)
        avg(t) == RoundTenths(team_return_yards_allowed(season, t),
                              team_games(season, t))
    IN  {f \in [T -> UNION {avg(t) : t \in T}] : \A t \in T : f[t] \in avg(t)}

\* DefenseReturnAnalyzer.league_avg = 62.5, in tenths of a yard
league_avg == 625

\* DefenseReturnAnalyzer.get_expected_return_yards(opponent_team)
get_expected_return_yards(table, opponent_team) ==
    IF opponent_team \in DOMAIN table THEN table[opponent_team] ELSE league_avg

\* str.strip(): s without its leading and trailing spaces
RECURSIVE str_strip(_)
str_strip(s) ==
    IF s = <<>> THEN s
    ELSE IF Head(s) = " " THEN str_strip(Tail(s))
    ELSE IF s[Len(s)] = " " THEN str_strip(SubSeq(s, 1, Len(s) - 1))
    ELSE s

\* The text of a player link as the page holds it
LinkTexts == {<<" ", "a", " ", "b", " ">>, <<"b", " ">>}

\* row_data['player'] = player_link.text.strip()
ScrapedPlayers == {str_strip(t) : t \in LinkTexts}

\* The rows scrape_projections builds, by position
ScrapedQB ==
    [player : ScrapedPlayers, team : {"PHI"}, position : {"QB"},
     passing_yards : {2555}, passing_tds : {0, 15}]
ScrapedRB ==
    [player : ScrapedPlayers, team : {"PHI"}, position : {"RB"},
     rushing_yards : {455, 1000}, rushing_tds : {0, 7}, receiving_tds : {0, 3}]
ScrapedK ==
    [player : ScrapedPlayers, team : {"PHI"}, position : {"K"},
     fg_made : {0, 25}, pat_made : {15}]
ScrapedDST ==
    [player : {<<"a">>}, team : {"PHI"}, position : {"DST"},
     sacks : {25}, points_allowed : {65, 170}]

ScrapedRows == ScrapedQB \cup ScrapedRB \cup ScrapedK \cup ScrapedDST

\* Every sequence of at most n rows
RECURSIVE RowSeqs(_, _)
RowSeqs(Rows, n) ==
    IF n = 0 THEN {<<>>}
    ELSE RowSeqs(Rows, n - 1)
         \cup {Append(s, r) : s \in {t \in RowSeqs(Rows, n - 1) : Len(t) = n - 1},
                              r \in Rows}

\* What the scraper finds for a week
Scrapes == RowSeqs(ScrapedRows, MaxScraped)

\* Every sequence that takes its i-th item from the i-th set of sets
RECURSIVE FrameProduct(_)
FrameProduct(sets) ==
    IF sets = <<>> THEN {<<>>}
    ELSE {<<r>> \o f : r \in Head(sets), f \in FrameProduct(Tail(sets))}

\* scraper.get_projections(position, week): the rows of the position
get_projections(scrape, position) ==
    SelectSeq(scrape, LAMBDA r : r.position = position)

\* Mutant: only the rushing touchdowns counted
projected_total_tds_rushing_only(proj) == Get(proj, "rushing_tds", 0)

\* "total_tds = proj.get('passing_tds', 0) + proj.get('rushing_tds', 0) +
\* proj.get('receiving_tds', 0)"
projected_total_tds(proj) ==
    Get(proj, "passing_tds", 0) + Get(proj, "rushing_tds", 0)
    + Get(proj, "receiving_tds", 0)

\* The body of the loop over the offensive projections: the rows it can leave
project_offense(proj, tdp) ==
    LET bases == Round1(FinalLeagueScorer_score(proj), Scale)
        total_tds_ == projected_total_tds(proj)
        bonus == get_player_td_bonus(tdp, proj.player, RTenths(total_tds_))
        row(pp, tb) == Put(Put(proj, "projected_points", pp), "td_bonus", tb)
    IN  IF total_tds_ > 0
        THEN IF bonus.raised # "none" THEN Raise(bonus.raised)
             ELSE Return(UNION {UNION {{row(pp, tb) : pp \in Round1(b + tb, Scale)} :
                                          tb \in bonus.vals} : b \in bases})
        ELSE Return({row(b, 0) : b \in bases})

\* The body of the loop over the kicker projections
project_kicker(proj, fgp) ==
    LET points == get_kicker_points(fgp, proj.player,
                                    RTenths(Get(proj, "fg_made", 0)),
                                    RTenths(Get(proj, "pat_made", 0)))
    IN  IF points.raised # "none" THEN Raise(points.raised)
        ELSE Return({Put(proj, "projected_points", pp) : pp \in points.vals})

\* The body of the loop over the defense projections
project_dst(proj) ==
    LET bases == Round1(DefenseScorer_score(proj), Scale)
        expected_return_yards == league_avg
        returns == Round1(expected_return_yards, 100)
        row(pp, rp) ==
            Put(Put(Put(proj, "projected_points", pp),
                    "expected_return_yards", expected_return_yards),
                "return_points", rp)
    IN  Return(UNION {{row(pp, rp) : pp \in Round1(b + rp, Scale)} :
                         b \in bases, rp \in returns})

offensive_positions == <<"QB", "RB", "WR", "TE">>

\* get_week_projections(week): the frames it can return, or the exception
week_projections(scrape, tdp, fgp) ==
    LET offense == get_projections(scrape, "QB") \o get_projections(scrape, "RB")
                   \o get_projections(scrape, "WR") \o get_projections(scrape, "TE")
        kickers == get_projections(scrape, "K")
        defenses == get_projections(scrape, "DST")
        results == [i \in 1..Len(offense) |-> project_offense(offense[i], tdp)]
                   \o [i \in 1..Len(kickers) |-> project_kicker(kickers[i], fgp)]
                   \o [i \in 1..Len(defenses) |-> project_dst(defenses[i])]
        failed == {i \in 1..Len(results) : results[i].raised # "none"}
    IN  IF failed # {}
        THEN Raise(results[CHOOSE i \in failed : \A j \in failed : i <= j].raised)
        ELSE Return(FrameProduct([i \in 1..Len(results) |-> results[i].vals]))

\* Mutant: the touchdown table analyzed again on every call
loaded_td_patterns_again == Merge(analyze_td_patterns(pbp_data), td_patterns)

\* pattern_analyzer.load_data() as get_week_projections calls it: the tables
\* after the call
loaded_td_patterns ==
    IF data_loaded THEN td_patterns
    ELSE Merge(analyze_td_patterns(pbp_data), td_patterns)
loaded_fg_patterns ==
    IF data_loaded THEN fg_patterns
    ELSE Merge(analyze_fg_patterns(pbp_data), fg_patterns)

\* return_analyzer.load_data() when the week has defense rows and the loop
\* over them is reached
LoadReturnData(reached) ==
    IF reached /\ ~return_loaded
    THEN /\ \E season \in ReturnSeasons :
              return_yards_allowed' \in analyze_return_yards(season)
         /\ return_loaded' = TRUE
    ELSE UNCHANGED returnVars

\* ProjectionAnalyzer.get_week_projections(week), the scraper finding one of
\* the pages SS
GetWeekProjectionsOf(SS) ==
    /\ op = "idle"
    /\ \E scrape \in SS, week \in Weeks :
         LET res == week_projections(scrape, loaded_td_patterns, loaded_fg_patterns)
         IN  /\ td_patterns' = loaded_td_patterns
             /\ fg_patterns' = loaded_fg_patterns
             /\ data_loaded' = TRUE
             /\ LoadReturnData(res.raised = "none"
                               /\ get_projections(scrape, "DST") # <<>>)
             /\ op' = "get_week_projections"
             /\ proj_data' = scrape
             /\ args' = <<week>>
             /\ name' = NoName
             /\ raised' = res.raised
             /\ out' \in res.vals
    /\ UNCHANGED <<pbp_data, tpaVars, weeklyVars, trackVars>>

GetWeekProjections == GetWeekProjectionsOf(Scrapes)

\* The projection system starts on a season of the stats provider
InitProjection ==
    /\ InitCall
    /\ InitWeekly
    /\ InitReturn
    /\ InitTracking
    /\ pbp_data \in NameSeasons
    /\ td_patterns = EmptyDict
    /\ fg_patterns = EmptyDict
    /\ data_loaded = FALSE
    /\ tpa_pc = "new"
    /\ tpa_td_patterns = EmptyDict
    /\ tpa_fg_patterns = EmptyDict

NextProjection ==
    \/ Discard
    \/ GetWeekProjections

SpecProjection == InitProjection /\ [][NextProjection]_vars

----------------------------------------------------------------------------
(* Claims about get_week_projections, checked under SpecProjection *)

IsWeekProjection == op = "get_week_projections" /\ raised = "none"

\* The rows of a frame at a position
RowsAt(frame, position) == SelectSeq(frame, LAMBDA r : r.position = position)

\* C13: for every defense/special-teams projection the return points added
\* equal (expected return yards allowed by the opposing team) / 10 when the
\* opposing team has an entry in return_yards_allowed, and league average / 10
\* only when it has none.  Whichever team the opponent is: when every team has
\* an entry the return points are those of one of the entries, and they are
\* the league average's when no team has one.
C13_ReturnPointsByOpponent ==
    IsWeekProjection =>
        \A i \in 1..Len(out) :
            out[i].position = "DST" =>
                /\ (\A t \in Teams : t \in DOMAIN return_yards_allowed) =>
                      \E t \in Teams :
                          out[i].return_points \in Round1(return_yards_allowed[t], 100)
                /\ return_yards_allowed = EmptyDict =>
                      out[i].return_points \in Round1(625, 100)

\* The projected row of an offensive stat line: base score plus the expected
\* TD bonus of the total projected touchdowns, rounded; the base score alone
\* and a bonus of 0 when the total is 0
OffenseRowProjected(row, src) ==
    LET total == Get(src, "passing_tds", 0) + Get(src, "rushing_tds", 0)
                 + Get(src, "receiving_tds", 0)
        bases == Round1(FinalLeagueScorer_score(src), Scale)
        expected == get_player_td_bonus(td_patterns, src.player, RTenths(total))
    IN  /\ Without(Without(row, "projected_points"), "td_bonus") = src
        /\ IF total > 0
           THEN /\ expected.raised = "none"
                /\ \E b \in bases, tb \in expected.vals :
                      /\ row.td_bonus = tb
                      /\ row.projected_points \in Round1(b + tb, Scale)
           ELSE /\ row.projected_points \in bases
                /\ row.td_bonus = 0

\* C14: for every offensive projected stat line, projected_points equals the
\* base aggregate score of the line plus the expected TD bonus computed from
\* the player's total projected touchdown count (passing + rushing +
\* receiving), rounded to one decimal; when that total is 0 the projected
\* points equal the base score and td_bonus is 0.
C14_OffenseProjectedPoints ==
    op = "get_week_projections" =>
        /\ raised = "none"
        /\ \A p \in {offensive_positions[i] : i \in 1..Len(offensive_positions)} :
              LET rows == RowsAt(out, p)
                  srcs == RowsAt(proj_data, p)
              IN  /\ Len(rows) = Len(srcs)
                  /\ \A i \in 1..Len(rows) : OffenseRowProjected(rows[i], srcs[i])

\* The quarterback "a b", whose short name "a.b" has touchdowns of 39, 40 and
\* 50 yards on record, is projected 1.5 passing touchdowns on 255.5 yards:
\* base 16.2, bonus 1.5 x 8/3 = 4.0, projected 20.2.
C14_Witness ==
    /\ IsWeekProjection
    /\ Len(out) = 1
    /\ out[1].position = "QB"
    /\ out[1].player = FullAB
    /\ out[1].passing_tds = 15
    /\ ActorAB \in DOMAIN td_patterns
    /\ out[1].td_bonus = Points(4)
    /\ out[1].projected_points = Points(20) + 2 * (Scale \div 10)

----------------------------------------------------------------------------
(* accuracy_tracking.py: AccuracyTracker *)

\* Rows of a projections frame handed to the tracker
MaxTracked == 2

TrackYears == {2025}
TrackWeeks == {1}

\* The key of a file: f"{year}_week{week}"
FileKey(week, year) == <<year, week>>

\* _calculate_actual_points: "return 0.0"
calculate_actual_points(player_name, position) == 0

\* None as fetch_actual_results returns it: a value no list of results equals
NoResults == <<[none |-> TRUE]>>

\* The difference taken as projected minus actual
result_records_projected_minus_actual(proj) ==
    LET projected_pts == proj.projected_points
        actual_pts == calculate_actual_points(proj.player, proj.position)
        denom == IF projected_pts > Scale THEN projected_pts ELSE Scale
    IN  {[player |-> proj.player, position |-> proj.position,
          team |-> Get(proj, "team", ""),
          projected_points |-> projected_pts, actual_points |-> actual_pts,
          difference |-> d, accuracy_pct |-> a] :
            d \in Round1(projected_pts - actual_pts, Scale),
            a \in Round1((denom - Abs(actual_pts - projected_pts)) * 100, denom)}

\* The values of one item of 'results' for a saved projection
result_records(proj) ==
    LET projected_pts == proj.projected_points
        actual_pts == calculate_actual_points(proj.player, proj.position)
        denom == IF projected_pts > Scale THEN projected_pts ELSE Scale
    IN  {[player |-> proj.player, position |-> proj.position,
          team |-> Get(proj, "team", ""),
          projected_points |-> projected_pts, actual_points |-> actual_pts,
          difference |-> d, accuracy_pct |-> a] :
            d \in Round1(actual_pts - projected_pts, Scale),
            a \in Round1((denom - Abs(actual_pts - projected_pts)) * 100, denom)}

\* The 'results' lists fetch_actual_results can write for saved projections
results_of(projections) ==
    FrameProduct([i \in 1..Len(projections) |-> result_records(projections[i])])

\* "all_results.extend(data['results'])" over the results files: the records
\* as <<file key, index>> entries
all_results(files) ==
    UNION {{<<k, i>> : i \in 1..Len(files[k].results)} : k \in DOMAIN files}

\* The result record of an entry
result_at(files, e) == files[e[1]].results[e[2]]

\* Mutant: a position needs two records to get an interval
result_positions_with_two(files) ==
    {p \in {result_at(files, e).position : e \in all_results(files)} :
        Cardinality({e \in all_results(files) :
                        result_at(files, e).position = p}) >= 2}

\* results_df['position'].unique()
result_positions(files) ==
    {result_at(files, e).position : e \in all_results(files)}

\* round(factor * sqrt(v) / n, 1) in tenths, for a value of at most bound:
\* every k with k - 1/2 <= factor * sqrt(v) / n <= k + 1/2
RoundRoot(factor, v, n, bound) ==
    LET s == factor * factor * v
    IN  {k \in 0..(bound + 1) :
            /\ k = 0 \/ (2 * k - 1) * (2 * k - 1) * n * n <= 4 * s
            /\ 4 * s <= (2 * k + 1) * (2 * k + 1) * n * n}

\* The interval of one position: np.std of the differences, rounded, and twice
\* np.std, rounded; differences in tenths of a point
position_intervals(files, position) ==
    LET E == {e \in all_results(files) : result_at(files, e).position = position}
        x == [e \in E |-> result_at(files, e).difference \div (Scale \div 10)]
        n == Cardinality(E)
        sum == SumOver(E, x)
        squares == SumOver(E, [e \in E |-> x[e] * x[e]])
        variance_n2 == n * squares - sum * sum
        abs_sum == SumOver(E, [e \in E |-> Abs(x[e])])
        \* the deviation is at most the spread of the differences
        spread == (CHOOSE a \in {x[e] : e \in E} : \A e \in E : x[e] <= a)
                  - (CHOOSE a \in {x[e] : e \in E} : \A e \in E : a <= x[e])
    IN  {[k \in {"68_pct", "95_pct", "avg_error"} |->
            IF k = "68_pct" THEN one * (Scale \div 10)
            ELSE IF k = "95_pct" THEN two * (Scale \div 10)
            ELSE avg] :
          one \in RoundRoot(1, variance_n2, n, spread),
          two \in RoundRoot(2, variance_n2, n, 2 * spread),
          avg \in Round1(abs_sum, 10 * n)}

\* calculate_confidence_intervals(): the mappings it can return
calculate_confidence_intervals(files) ==
    LET P == result_positions(files)
    IN  IF all_results(files) = {} THEN {EmptyDict}
        ELSE {c \in [P -> UNION {position_intervals(files, p) : p \in P}] :
                 \A p \in P : c[p] \in position_intervals(files, p)}

\* Mutant: the band is drawn above the point estimate only
band_low_at_projected(projected, band) == projected

\* "row['projected_points'] - conf_68", "base_pts - std_68"
band_low(projected, band) == projected - band

\* "row['projected_points'] + conf_68", "base_pts + std_68"
band_high(projected, band) == projected + band

\* display_projections_with_confidence: the loop that adds the conf_ columns
add_conf_columns(frame, confidence) ==
    [i \in 1..Len(frame) |->
        LET row == frame[i]
        IN  IF row.position \in DOMAIN confidence
            THEN LET conf_68 == confidence[row.position]["68_pct"]
                     conf_95 == confidence[row.position]["95_pct"]
                 IN  Put(Put(Put(Put(row,
                        "conf_68_low", band_low(row.projected_points, conf_68)),
                        "conf_68_high", band_high(row.projected_points, conf_68)),
                        "conf_95_low", band_low(row.projected_points, conf_95)),
                        "conf_95_high", band_high(row.projected_points, conf_95))
            ELSE row]

\* f"{x:.1f}": the decimal with one place nearest to x, as its value
format_1f(x) == Round1(x, Scale)

\* run_weekly_projections: the rows a row can become when the ranges are
\* attached; a range f"{low:.1f}-{high:.1f}" is held as <<low, high>>
add_ranges_row(row, confidence) ==
    IF confidence # EmptyDict /\ row.position \in DOMAIN confidence
    THEN LET std_68 == confidence[row.position]["68_pct"]
             std_95 == confidence[row.position]["95_pct"]
             base_pts == row.projected_points
         IN  {Put(Put(row, "range_68", <<l68, h68>>), "range_95", <<l95, h95>>) :
                 l68 \in format_1f(band_low(base_pts, std_68)),
                 h68 \in format_1f(band_high(base_pts, std_68)),
                 l95 \in format_1f(band_low(base_pts, std_95)),
                 h95 \in format_1f(band_high(base_pts, std_95))}
    ELSE {row}

add_ranges(frame, confidence) ==
    FrameProduct([i \in 1..Len(frame) |-> add_ranges_row(frame[i], confidence)])

\* EnhancedFantasySystem.my_roster, as names of the model
my_roster == <<FullAB, <<"b">>>>

\* str.contains(sub): sub occurs in s
str_contains(s, sub) ==
    \E i \in 0..(Len(s) - Len(sub)) : SubSeq(s, i + 1, i + Len(sub)) = sub

\* "for player_name in self.my_roster: matches = ...; if len(matches) > 0:
\* my_players.append(matches.iloc[0].to_dict())"
RECURSIVE roster_players(_, _)
roster_players(frame, i) ==
    IF i > Len(my_roster) THEN <<>>
    ELSE LET matches == SelectSeq(frame, LAMBDA r : str_contains(r.player, my_roster[i]))
         IN  (IF matches # <<>> THEN <<matches[1]>> ELSE <<>>)
             \o roster_players(frame, i + 1)

\* The roster left in the order it was given
players_as_given(players) == players

\* list.sort(key=projected_points, reverse=True): stable, highest first
RECURSIVE sort_by_points(_)
sort_by_points(players) ==
    IF players = <<>> THEN <<>>
    ELSE LET top == CHOOSE i \in 1..Len(players) :
                      /\ \A j \in 1..Len(players) :
                            players[j].projected_points <= players[i].projected_points
                      /\ \A j \in 1..(i - 1) :
                            players[j].projected_points < players[i].projected_points
         IN  <<players[top]>>
             \o sort_by_points(SubSeq(players, 1, top - 1)
                               \o SubSeq(players, top + 1, Len(players)))

\* A lineup slot holding no player
NoPlayer == EmptyDict

empty_lineup ==
    [slot \in {"QB", "RB1", "RB2", "WR1", "WR2", "TE", "FLEX", "K", "DST"} |-> NoPlayer]

\* The slot the "Fill starters" loop gives a player, "" when it gives none
starter_slot(lineup, pos) ==
    IF pos = "QB" /\ lineup["QB"] = NoPlayer THEN "QB"
    ELSE IF pos = "RB" THEN (IF lineup["RB1"] = NoPlayer THEN "RB1"
                             ELSE IF lineup["RB2"] = NoPlayer THEN "RB2" ELSE "")
    ELSE IF pos = "WR" THEN (IF lineup["WR1"] = NoPlayer THEN "WR1"
                             ELSE IF lineup["WR2"] = NoPlayer THEN "WR2" ELSE "")
    ELSE IF pos = "TE" /\ lineup["TE"] = NoPlayer THEN "TE"
    ELSE IF pos = "K" /\ lineup["K"] = NoPlayer THEN "K"
    ELSE IF pos = "DST" /\ lineup["DST"] = NoPlayer THEN "DST"
    ELSE ""

\* The "Fill starters" loop from player i on: <<lineup, used>>
RECURSIVE fill_starters(_, _, _, _)
fill_starters(players, i, lineup, used) ==
    IF i > Len(players) THEN <<lineup, used>>
    ELSE LET player == players[i]
             slot == starter_slot(lineup, player.position)
         IN  IF player.player \in used \/ slot = ""
             THEN fill_starters(players, i + 1, lineup, used)
             ELSE fill_starters(players, i + 1, Put(lineup, slot, player),
                                used \cup {player.player})

\* get_optimal_lineup_from_roster(my_players)
get_optimal_lineup_from_roster(my_players) ==
    LET players == sort_by_points(my_players)
        filled == fill_starters(players, 1, empty_lineup, {})
        lineup == filled[1]
        used == filled[2]
        flex == {i \in 1..Len(players) :
                    /\ players[i].player \notin used
                    /\ players[i].position \in {"RB", "WR", "TE"}}
    IN  IF flex = {} THEN lineup
        ELSE Put(lineup, "FLEX", players[CHOOSE i \in flex : \A j \in flex : i <= j])

\* "{pos: player['player'] if player else None ...}": None is held as NoName
lineup_names(lineup) ==
    [slot \in DOMAIN lineup |->
        IF lineup[slot] = NoPlayer THEN NoName ELSE lineup[slot].player]

\* The file save_weekly_projections writes (its timestamp is read by no
\* operation and is left out)
projections_file(week, year, frame, my_lineup) ==
    [week |-> week, year |-> year, projections |-> frame, my_lineup |-> my_lineup]

\* The file fetch_actual_results writes
results_file(week, year, results) ==
    [week |-> week, year |-> year, results |-> results]

----------------------------------------------------------------------------
(* Actions of the tracker and of the enhanced projection system *)

\* The page the scraper reads in the weeks that are tracked: each player once,
\* in the order of the page
TrackPage ==
    <<[player |-> FullAB, team |-> "PHI", position |-> "RB",
       rushing_yards |-> 1000, rushing_tds |-> 7, receiving_tds |-> 0],
      [player |-> <<"b">>, team |-> "PHI", position |-> "RB",
       rushing_yards |-> 1000, rushing_tds |-> 0, receiving_tds |-> 3],
      [player |-> <<"b">>, team |-> "PHI", position |-> "K",
       fg_made |-> 0, pat_made |-> 15]>>

\* The rows of the page at the places I, in the order of the page
RECURSIVE PageRows(_, _)
PageRows(I, i) ==
    IF i > Len(TrackPage) THEN <<>>
    ELSE (IF i \in I THEN <<TrackPage[i]>> ELSE <<>>) \o PageRows(I, i + 1)

\* What the scraper finds: at most MaxTracked rows of the page
TrackScrapes ==
    {PageRows(I, 1) : I \in {J \in SUBSET (1..Len(TrackPage)) :
                                Cardinality(J) <= MaxTracked}}

\* The pages of a week with a defense: the defense row comes last
DefensePages ==
    {scrape \o <<[player |-> <<"a">>, team |-> "PHI", position |-> "DST",
                  sacks |-> 25, points_allowed |-> 170]>> : scrape \in TrackScrapes}

\* A call of the tracker or of the enhanced system that raised or returned v
Finishes(opname, scrape, week, e, v) ==
    /\ op' = opname
    /\ proj_data' = scrape
    /\ args' = <<week>>
    /\ name' = NoName
    /\ raised' = e
    /\ out' = v

\* What get_week_projections leaves behind in the analyzers
ProjectionsLoaded(scrape, res) ==
    /\ td_patterns' = loaded_td_patterns
    /\ fg_patterns' = loaded_fg_patterns
    /\ data_loaded' = TRUE
    /\ LoadReturnData(res.raised = "none" /\ get_projections(scrape, "DST") # <<>>)

\* The steps of get_week_projections in the order the code takes them: a
\* load_data step stands for a load that reads the play history (the call
\* returns at once when the data is loaded), a "score" for a row scored
get_week_projections_steps(scrape, patterns_loaded, returns_loaded) ==
    LET scores(position) ==
            [i \in 1..Len(get_projections(scrape, position)) |-> "score"]
    IN  (IF patterns_loaded THEN <<>> ELSE <<"pattern_analyzer.load_data">>)
        \o <<"scrape">> \o scores("QB") \o <<"scrape">> \o scores("RB")
        \o <<"scrape">> \o scores("WR") \o <<"scrape">> \o scores("TE")
        \o <<"scrape">> \o scores("K")
        \o <<"scrape">>
        \o (IF get_projections(scrape, "DST") # <<>> /\ ~returns_loaded
            THEN <<"return_analyzer.load_data">> ELSE <<>>)
        \o scores("DST")

\* The steps of run_weekly_projections(save) that returns: get_week_projections,
\* the intervals, display_projections (which calls get_week_projections
\* again, on loaded data), the lineup, and the save
run_weekly_projections_steps(scrape, patterns_loaded, returns_loaded, save) ==
    get_week_projections_steps(scrape, patterns_loaded, returns_loaded)
    \o <<"calculate_confidence_intervals">>
    \o get_week_projections_steps(scrape, TRUE,
            returns_loaded \/ get_projections(scrape, "DST") # <<>>)
    \o <<"get_optimal_lineup_from_roster">>
    \o (IF save THEN <<"save_weekly_projections">> ELSE <<>>)

\* AccuracyTracker.save_weekly_projections(week, year, projections_df) with a
\* frame of get_week_projections
SaveWeeklyProjections ==
    /\ op = "idle"
    /\ \E week \in TrackWeeks, year \in TrackYears, scrape \in TrackScrapes :
         \E res \in {week_projections(scrape, loaded_td_patterns, loaded_fg_patterns)} :
             /\ res.raised = "none"
             /\ \E frame \in res.vals :
                  /\ proj_files' = Put(proj_files, FileKey(week, year),
                                       projections_file(week, year, frame, NoName))
                  /\ Finishes("save_weekly_projections", scrape, week, "none", frame)
             /\ ProjectionsLoaded(scrape, res)
    /\ UNCHANGED <<pbp_data, tpaVars, weeklyVars, result_files>>

\* AccuracyTracker.fetch_actual_results(week, year)
FetchActualResults ==
    /\ op = "idle"
    /\ \E week \in TrackWeeks, year \in TrackYears :
         IF FileKey(week, year) \notin DOMAIN proj_files
         THEN /\ Finishes("fetch_actual_results", <<>>, week, "none", NoResults)
              /\ UNCHANGED result_files
         ELSE \E results \in results_of(proj_files[FileKey(week, year)].projections) :
                /\ result_files' = Put(result_files, FileKey(week, year),
                                       results_file(week, year, results))
                /\ Finishes("fetch_actual_results", <<>>, week, "none", results)
    /\ UNCHANGED <<patternVars, weeklyVars, returnVars, proj_files>>

\* AccuracyTracker.calculate_confidence_intervals()
CalculateConfidenceIntervals ==
    /\ op = "idle"
    /\ \E confidence \in calculate_confidence_intervals(result_files) :
         Returns("calculate_confidence_intervals", EmptyDict, NoArgs, NoName, confidence)
    /\ UNCHANGED <<patternVars, weeklyVars, returnVars, trackVars>>

\* EnhancedProjectionAnalyzer.display_projections_with_confidence(week, year):
\* the frame is saved with its conf_ columns; the display that follows reads
\* projections_df['position'], a KeyError on a frame without rows
DisplayProjectionsWithConfidence ==
    /\ op = "idle"
    /\ \E week \in TrackWeeks, year \in TrackYears, scrape \in TrackScrapes :
         \E res \in {week_projections(scrape, loaded_td_patterns, loaded_fg_patterns)} :
             /\ ProjectionsLoaded(scrape, res)
             /\ IF res.raised # "none"
                THEN /\ Finishes("display_projections_with_confidence", scrape, week,
                                 res.raised, <<>>)
                     /\ UNCHANGED proj_files
                ELSE \E frame \in res.vals,
                        confidence \in calculate_confidence_intervals(result_files) :
                       LET projections_df == add_conf_columns(frame, confidence)
                       IN  /\ proj_files' =
                                Put(proj_files, FileKey(week, year),
                                    projections_file(week, year, projections_df, NoName))
                           /\ Finishes("display_projections_with_confidence", scrape,
                                       week,
                                       IF projections_df = <<>> THEN "KeyError" ELSE "none",
                                       projections_df)
    /\ UNCHANGED <<pbp_data, tpaVars, weeklyVars, result_files>>

\* EnhancedFantasySystem.run_weekly_projections(save) for current_week and
\* current_year: the ranges are attached, the roster is looked up in
\* projections['player'] (a KeyError on a frame without rows), and the frame
\* is saved with the lineup.  display_projections only prints.
RunWeeklyProjectionsOf(SS) ==
    /\ op = "idle"
    /\ \E current_week \in TrackWeeks, current_year \in TrackYears,
          scrape \in SS, save \in BOOLEAN :
         \E res \in {week_projections(scrape, loaded_td_patterns, loaded_fg_patterns)} :
             /\ ProjectionsLoaded(scrape, res)
             /\ IF res.raised # "none"
                THEN /\ Finishes("run_weekly_projections", scrape, current_week,
                                 res.raised, <<>>)
                     /\ UNCHANGED proj_files
                ELSE \E frame \in res.vals,
                        confidence \in calculate_confidence_intervals(result_files) :
                       \E projections \in add_ranges(frame, confidence) :
                          IF projections = <<>>
                          THEN /\ Finishes("run_weekly_projections", scrape,
                                           current_week, "KeyError", projections)
                               /\ UNCHANGED proj_files
                          ELSE LET lineup == get_optimal_lineup_from_roster(
                                                 roster_players(projections, 1))
                               IN  /\ Finishes("run_weekly_projections", scrape,
                                               current_week, "none", projections)
                                   /\ IF save
                                      THEN proj_files' =
                                             Put(proj_files,
                                                 FileKey(current_week, current_year),
                                                 projections_file(current_week,
                                                                  current_year, projections,
                                                                  lineup_names(lineup)))
                                      ELSE UNCHANGED proj_files
    /\ UNCHANGED <<pbp_data, tpaVars, weeklyVars, result_files>>

RunWeeklyProjections == RunWeeklyProjectionsOf(TrackScrapes)

NextTracking ==
    \/ Discard
    \/ SaveWeeklyProjections
    \/ FetchActualResults
    \/ CalculateConfidenceIntervals
    \/ DisplayProjectionsWithConfidence
    \/ RunWeeklyProjections

SpecTracking == Init /\ [][NextTracking]_vars

----------------------------------------------------------------------------
(* Claims about the confidence intervals and the stored records *)

\* C16: for every position in the result of calculate_confidence_intervals,
\* '95_pct' is exactly twice '68_pct', and both are at least 0.
C16_TwoSigmaIsTwiceOneSigma ==
    op = "calculate_confidence_intervals" =>
        \A p \in DOMAIN out :
            /\ out[p]["95_pct"] = 2 * out[p]["68_pct"]
            /\ out[p]["68_pct"] >= 0
            /\ out[p]["95_pct"] >= 0

\* C17: calculate_confidence_intervals returns an entry for a position if and
\* only if a result record of that position is stored; with no stored result
\* it returns the empty mapping; it never raises.
C17_EntryIffResultStored ==
    op = "calculate_confidence_intervals" =>
        /\ raised = "none"
        /\ DOMAIN out = {p \in {"QB", "RB", "WR", "TE", "K", "DST"} :
                            \E k \in DOMAIN result_files :
                                \E i \in 1..Len(result_files[k].results) :
                                    result_files[k].results[i].position = p}
        /\ (\A k \in DOMAIN result_files : result_files[k].results = <<>>)
               => out = EmptyDict

\* Intervals returned for a week whose results hold one running back and
\* one kicker: each position has its entry by a single record
C17_Witness ==
    /\ op = "calculate_confidence_intervals"
    /\ DOMAIN out = {"RB", "K"}
    /\ \E k \in DOMAIN result_files : Len(result_files[k].results) = 2

\* The rows of a frame keep the point estimates of base and carry bands at
\* the distances confidence gives, below and above the estimate
BandsAround(frame, base, confidence) ==
    /\ Len(frame) = Len(base)
    /\ \A i \in 1..Len(frame) :
        LET row == frame[i]
            projected == base[i].projected_points
            banded == row.position \in DOMAIN confidence
        IN  /\ row.player = base[i].player
            /\ row.position = base[i].position
            /\ row.projected_points = projected
            /\ Has(row, "conf_68_low") =>
                 /\ banded
                 /\ row.conf_68_low = projected - confidence[row.position]["68_pct"]
                 /\ row.conf_68_high = projected + confidence[row.position]["68_pct"]
                 /\ row.conf_95_low = projected - confidence[row.position]["95_pct"]
                 /\ row.conf_95_high = projected + confidence[row.position]["95_pct"]
            /\ Has(row, "range_68") =>
                 /\ banded
                 /\ row.range_68 = <<projected - confidence[row.position]["68_pct"],
                                     projected + confidence[row.position]["68_pct"]>>
                 /\ row.range_95 = <<projected - confidence[row.position]["95_pct"],
                                     projected + confidence[row.position]["95_pct"]>>
            /\ banded => (Has(row, "conf_68_low") \/ Has(row, "range_68"))

\* C18: after display_projections_with_confidence or run_weekly_projections
\* the projected_points of every player is the value get_week_projections
\* computed, and the bands lie symmetrically around it: low = projected - band,
\* high = projected + band.
C18_BandsKeepPointEstimate ==
    (/\ op \in {"display_projections_with_confidence", "run_weekly_projections"}
     /\ raised = "none") =>
        \E base \in week_projections(proj_data, td_patterns, fg_patterns).vals,
           confidence \in calculate_confidence_intervals(result_files) :
            BandsAround(out, base, confidence)

\* run_weekly_projections returned a frame whose first row has a 68% range
\* that is wider than a point
C18_Witness ==
    /\ op = "run_weekly_projections"
    /\ raised = "none"
    /\ Len(out) = 2
    /\ Has(out[1], "range_68")
    /\ out[1].range_68[1] < out[1].projected_points
    /\ out[1].range_68[2] > out[1].projected_points

\* C19: once fetch_actual_results has written the results of a (week, year),
\* no operation changes the stored projection record of that week.
C19_ProjectionRecordImmutable ==
    [][\A k \in DOMAIN result_files :
          k \in DOMAIN proj_files =>
              (k \in DOMAIN proj_files' /\ proj_files'[k] = proj_files[k])]_vars

----------------------------------------------------------------------------
(* Claims about the band fractions of the pattern tables *)

\* The touchdown rows of an actor in the season with lo <= yards_gained < hi;
\* hi = 0 stands for no upper end
TdsInBand(a, lo, hi) ==
    Cardinality({<<r, i>> \in (DOMAIN pbp_data.td) \X (1..MaxPbpTds + 1) :
                    /\ r.td_player_name = a
                    /\ r.yards_gained >= lo
                    /\ (hi = 0 \/ r.yards_gained < hi)
                    /\ i <= pbp_data.td[r]})

\* The made field goals of a kicker in the season with lo <= kick_distance < hi
MadeInBand(k, lo, hi) ==
    Cardinality({<<r, i>> \in (DOMAIN pbp_data.fg) \X (1..MaxPbpFgs + 1) :
                    /\ r.kicker_player_name = k
                    /\ r.field_goal_result = "made"
                    /\ r.kick_distance >= lo
                    /\ (hi = 0 \/ r.kick_distance < hi)
                    /\ i <= pbp_data.fg[r]})

\* q is count / total, and lies between 0 and 1
IsFractionOf(q, count, total) ==
    /\ total > 0
    /\ q[1] * total = count * q[2]
    /\ 0 <= q[1]
    /\ q[1] <= q[2]

\* The fractions sum to at most 1
RECURSIVE RSum(_)
RSum(qs) == IF qs = <<>> THEN RInt(0) ELSE RAdd(Head(qs), RSum(Tail(qs)))

SumAtMostOne(qs) == RSum(qs)[1] <= RSum(qs)[2]

TdFractionsOk(table) ==
    \A a \in DOMAIN table :
        /\ IsFractionOf(table[a].pct_40_49, TdsInBand(a, 40, 50), TdsInBand(a, 0, 0))
        /\ IsFractionOf(table[a].pct_50_plus, TdsInBand(a, 50, 0), TdsInBand(a, 0, 0))
        /\ SumAtMostOne(<<table[a].pct_40_49, table[a].pct_50_plus>>)

\* C21: for every actor of a built pattern table each band fraction lies
\* between 0 and 1 and the fractions of the actor sum to at most 1; the
\* touchdown fractions are over the actor's total touchdowns, the field-goal
\* fractions over the kicker's made field goals.
C21_BandFractions ==
    /\ TdFractionsOk(td_patterns)
    /\ TdFractionsOk(tpa_td_patterns)
    /\ \A k \in DOMAIN fg_patterns :
        LET t == fg_patterns[k]
            n == MadeInBand(k, 0, 0)
        IN  /\ IsFractionOf(t.pct_0_29, MadeInBand(k, 0, 30), n)
            /\ IsFractionOf(t.pct_30_39, MadeInBand(k, 30, 40), n)
            /\ IsFractionOf(t.pct_40_49, MadeInBand(k, 40, 50), n)
            /\ IsFractionOf(t.pct_50_plus, MadeInBand(k, 50, 0), n)
            /\ SumAtMostOne(<<t.pct_0_29, t.pct_30_39, t.pct_40_49, t.pct_50_plus>>)
    /\ \A k \in DOMAIN tpa_fg_patterns :
        LET t == tpa_fg_patterns[k]
            n == MadeInBand(k, 0, 0)
        IN  /\ IsFractionOf(t.pct_0_19, MadeInBand(k, 0, 20), n)
            /\ IsFractionOf(t.pct_20_29, MadeInBand(k, 20, 30), n)
            /\ IsFractionOf(t.pct_30_39, MadeInBand(k, 30, 40), n)
            /\ IsFractionOf(t.pct_40_49, MadeInBand(k, 40, 50), n)
            /\ IsFractionOf(t.pct_50_plus, MadeInBand(k, 50, 0), n)
            /\ SumAtMostOne(<<t.pct_0_19, t.pct_20_29, t.pct_30_39, t.pct_40_49,
                              t.pct_50_plus>>)

\* A table entry of an actor with a touchdown in each bonus band and one
\* below 40 yards: the fractions are positive and sum to less than 1
C21_Witness ==
    /\ ActorAB \in DOMAIN td_patterns
    /\ td_patterns[ActorAB].pct_40_49[1] > 0
    /\ td_patterns[ActorAB].pct_50_plus[1] > 0
    /\ TdsInBand(ActorAB, 0, 40) > 0
    /\ RSum(<<td_patterns[ActorAB].pct_40_49, td_patterns[ActorAB].pct_50_plus>>)[1]
         < RSum(<<td_patterns[ActorAB].pct_40_49, td_patterns[ActorAB].pct_50_plus>>)[2]

----------------------------------------------------------------------------
(* Claims about the worked records, checked under SpecScore *)

\* C22: an offense score is the sum of rate x count over the linear stats
\* plus the yardage bonuses plus the per-touchdown length bonuses; for the
\* record {carries 20, rushing_yards 150, rushing_tds 1, receptions 5,
\* receiving_yards 50, receiving_tds 0, fumbles_lost 0} the score is exactly
\* 40.0.
C22_EndToEndOffense ==
    (IsOffenseCall /\ proj_data = EndToEndOffense) => out = Points(40)

\* The value of the band of the table that holds v (tenths), 0 when no band
\* holds it
MatchedBandValue(table, v) ==
    IF \E i \in 1..Len(table) : table[i][1] * 10 <= v /\ v <= table[i][2] * 10
    THEN Bonus(table[CHOOSE i \in 1..Len(table) :
                        table[i][1] * 10 <= v /\ v <= table[i][2] * 10][3])
    ELSE 0

\* C23: a defense score is the sum of rate x count over the linear defensive
\* stats plus the matched points-allowed band value plus the yards-allowed
\* bonus, a yards_allowed outside the band 0-99 adding 0; for {sacks 3,
\* interceptions 1, points_allowed 17, yards_allowed 250} it is exactly 6.0.
C23_EndToEndDefense ==
    IsDefenseCall =>
        /\ out \in Round1(DefenseLinear(proj_data)
                          + MatchedBandValue(points_allowed_scoring,
                                             Get(proj_data, "points_allowed", 200))
                          + (IF Get(proj_data, "yards_allowed", 3000) \in 0..990
                             THEN Points(3) ELSE 0),
                          Scale)
        /\ proj_data = EndToEndDefense => out = Points(6)

\* The defense scorer returned 6.0 for the worked record
C23_Witness ==
    /\ IsDefenseCall
    /\ proj_data = EndToEndDefense
    /\ out = Points(6)

----------------------------------------------------------------------------
(* The analyzers, the scorers and get_week_projections on shared tables *)

\* nfl.import_pbp_data([season]) returns another play history: the provider
\* has published more of the season
ProviderPublishes ==
    /\ op = "idle"
    /\ pbp_data' \in NameSeasons \ {pbp_data}
    /\ UNCHANGED <<callVars, fpVars, tpaVars, weeklyVars, returnVars, trackVars>>

NextShared ==
    \/ Discard
    \/ ProviderPublishes
    \/ LoadData
    \/ GetPlayerTdBonus(QueryNames)
    \/ GetKickerPoints(QueryNames)
    \/ ScoreOffenseOn({DOMAIN EndToEndOffense})
    \/ ScoreKickerOn({{"fg", "pat"}})
    \/ ScoreDefenseOn({DOMAIN EndToEndDefense})
    \/ GetWeekProjectionsOf(TrackScrapes)

SpecShared == InitProjection /\ [][NextShared]_vars

----------------------------------------------------------------------------
(* Claims about the order of loading, scoring and saving *)

NextRun ==
    \/ Discard
    \/ RunWeeklyProjectionsOf(TrackScrapes \cup DefensePages)

SpecRun == InitProjection /\ [][NextRun]_vars

\* Every load of play history comes before the first score, and the save
\* after the last
LoadsScoresSaves(steps) ==
    \A i, j \in 1..Len(steps) :
        /\ (steps[i] \in {"pattern_analyzer.load_data", "return_analyzer.load_data"}
            /\ steps[j] = "score") => i < j
        /\ (steps[i] = "score" /\ steps[j] = "save_weekly_projections") => i < j

\* C25: in every run of get_week_projections followed by saving, all loading
\* of historical play data (pattern_analyzer.load_data and
\* return_analyzer.load_data) completes before the first score is computed,
\* and the projection records are persisted only after the last score.
C25_LoadScoreSaveOrder ==
    [][(op' = "run_weekly_projections" /\ raised' = "none") =>
          LoadsScoresSaves(run_weekly_projections_steps(proj_data', data_loaded,
                                                        return_loaded, TRUE))]_vars

----------------------------------------------------------------------------
(* get_nfl_data.py: touchdown bonuses of a player over the loaded plays *)

\* "tds_40plus = sum(player_tds['yards_gained'] >= 40)"
tds_40plus(pbp, player_name) ==
    LET rows == {r \in DOMAIN pbp : r.td_player_name = player_name
                                    /\ r.yards_gained >= 40}
    IN  SumOver(rows, [r \in rows |-> pbp[r]])

\* "tds_50plus = sum(player_tds['yards_gained'] >= 50)"
tds_50plus(pbp, player_name) ==
    LET rows == {r \in DOMAIN pbp : r.td_player_name = player_name
                                    /\ r.yards_gained >= 50}
    IN  SumOver(rows, [r \in rows |-> pbp[r]])

\* The None that get_player_td_bonuses returns
NoBonuses == EmptyDict

\* get_player_td_bonuses(pbp_df, player_name): None without a touchdown of the
\* player, else the summary; td_bonus_points as a score
get_player_td_bonuses(pbp, player_name) ==
    LET player_tds == {r \in DOMAIN pbp : r.td_player_name = player_name}
    IN  IF player_tds = {} THEN NoBonuses
        ELSE [player |-> player_name,
              total_tds |-> SumOver(player_tds, [r \in player_tds |-> pbp[r]]),
              tds_40plus |-> tds_40plus(pbp, player_name),
              tds_50plus |-> tds_50plus(pbp, player_name),
              td_bonus_points |-> Points(tds_40plus(pbp, player_name) * 3
                                         + tds_50plus(pbp, player_name) * 5)]

\* "pbp_2024 = nfl.import_pbp_data([2024])": the plays both bonus functions
\* are given
ImportPbpData ==
    /\ op = "idle"
    /\ pbp_reg = EmptyDict
    /\ pbp_reg' \in BagsUpTo(TdRows, MaxTdRows) \ {EmptyDict}
    /\ UNCHANGED <<callVars, patternVars, weekly_reg, returnVars, trackVars>>

\* get_player_td_bonuses(pbp_2024, player_name)
GetPlayerTdBonuses ==
    /\ op = "idle"
    /\ pbp_reg # EmptyDict
    /\ \E p \in Actors :
         Returns("get_player_td_bonuses", EmptyDict, NoArgs, p,
                 get_player_td_bonuses(pbp_reg, p))
    /\ UNCHANGED <<patternVars, weeklyVars, returnVars, trackVars>>

NextSeasonBonus ==
    \/ Discard
    \/ ImportPbpData
    \/ GetPlayerTdBonuses

SpecSeasonBonus == Init /\ [][NextSeasonBonus]_vars

\* The rushing and receiving touchdown rows of the player of the call
CalledPlayerTds == {r \in DOMAIN pbp_reg : r.td_player_name = name}

\* C26: get_player_td_bonuses returns td_bonus_points equal to the
\* non-cumulative per-touchdown bonus of the player's touchdowns, 5 for each
\* touchdown of 50 yards or more and 3 for each of 40-49 yards, each touchdown
\* in its highest band only: the value get_weekly_td_bonuses sums over the
\* same touchdowns.
C26_SeasonBonusNonCumulative ==
    (/\ op = "get_player_td_bonuses"
     /\ out # NoBonuses
     /\ \A r \in CalledPlayerTds : r.play_type \in {"run", "pass"}) =>
        /\ out.td_bonus_points =
             SumOver(CalledPlayerTds,
                     [r \in CalledPlayerTds |-> pbp_reg[r] * TdTier(r.yards_gained)])
        /\ out.td_bonus_points =
             SumOver(Weeks, [w \in Weeks |-> get_weekly_td_bonuses(pbp_reg, name, w)])

----------------------------------------------------------------------------
(* The lineup builders of ProjectionAnalyzer *)

MaxRoster == 3

\* Rows of a projection table or of a roster: names that can recur across
\* positions, projected points in whole points (a score can be negative)
LineupPlayers ==
    [player : {<<"a">>, <<"b">>}, position : {"QB", "RB", "TE", "K"},
     projected_points : {Points(-2), Points(10)}]

\* The table left in the order it was given
rows_as_given(frame) == {frame}

\* sort_values('projected_points', ascending=False): every order of the rows
\* with the points descending (the default sort does not keep ties in place)
sort_values_descending(frame) ==
    LET n == Len(frame)
        perms == {f \in [1..n -> 1..n] : \A i, j \in 1..n : i # j => f[i] # f[j]}
    IN  {[i \in 1..n |-> frame[f[i]]] :
            f \in {g \in perms :
                     \A i \in 1..(n - 1) :
                        frame[g[i]].projected_points >= frame[g[i + 1]].projected_points}}

\* The lineup get_optimal_lineup starts from
empty_position_lists ==
    [slot \in {"QB", "RB", "WR", "TE", "FLEX", "K", "DEF"} |-> <<>>]

\* The "Fill positions" loop of get_optimal_lineup from row i on:
\* <<lineup, used_players>>
RECURSIVE fill_positions(_, _, _, _)
fill_positions(rows, i, lineup, used_players) ==
    IF i > Len(rows) THEN <<lineup, used_players>>
    ELSE LET player == rows[i]
             pos == player.position
             takes == \/ pos = "QB" /\ Len(lineup["QB"]) < 1
                      \/ pos = "RB" /\ Len(lineup["RB"]) < 2
                      \/ pos = "WR" /\ Len(lineup["WR"]) < 2
                      \/ pos = "TE" /\ Len(lineup["TE"]) < 1
         IN  IF player.player \in used_players \/ ~takes
             THEN fill_positions(rows, i + 1, lineup, used_players)
             ELSE fill_positions(rows, i + 1,
                                 Put(lineup, pos, Append(lineup[pos], player)),
                                 used_players \cup {player.player})

\* get_optimal_lineup(projections_df): the lineups it can return
get_optimal_lineup(projections_df) ==
    {LET filled == fill_positions(rows, 1, empty_position_lists, {})
         lineup == filled[1]
         used_players == filled[2]
         flex == {i \in 1..Len(rows) :
                     /\ rows[i].player \notin used_players
                     /\ rows[i].position \in {"RB", "WR", "TE"}}
     IN  IF flex = {} THEN lineup
         ELSE Put(lineup, "FLEX", <<rows[CHOOSE i \in flex : \A j \in flex : i <= j]>>) :
        rows \in sort_values_descending(projections_df)}

\* get_optimal_lineup_from_roster(my_players)
GetOptimalLineupFromRoster ==
    /\ op = "idle"
    /\ \E my_players \in RowSeqs(LineupPlayers, MaxRoster) :
         Returns("get_optimal_lineup_from_roster", my_players, NoArgs, NoName,
                 get_optimal_lineup_from_roster(my_players))
    /\ UNCHANGED <<patternVars, weeklyVars, returnVars, trackVars>>

\* get_optimal_lineup(projections_df)
GetOptimalLineup ==
    /\ op = "idle"
    /\ \E projections_df \in RowSeqs(LineupPlayers, MaxRoster) :
         \E lineup \in get_optimal_lineup(projections_df) :
            Returns("get_optimal_lineup", projections_df, NoArgs, NoName, lineup)
    /\ UNCHANGED <<patternVars, weeklyVars, returnVars, trackVars>>

NextLineup ==
    \/ Discard
    \/ GetOptimalLineupFromRoster
    \/ GetOptimalLineup

SpecLineup == Init /\ [][NextLineup]_vars

\* The slots a player of a position may fill
EligibleSlots(position) ==
    CASE position = "QB" -> {"QB"}
      [] position = "RB" -> {"RB1", "RB2", "FLEX"}
      [] position = "WR" -> {"WR1", "WR2", "FLEX"}
      [] position = "TE" -> {"TE", "FLEX"}
      [] position = "K" -> {"K"}
      [] position = "DST" -> {"DST"}
      [] OTHER -> {}

\* The valid assignments of the first i roster players to slots: the slots
\* taken, the names placed, and the total projected points
RECURSIVE Assignments(_, _)
Assignments(roster, i) ==
    IF i = 0 THEN {[slots |-> {}, names |-> {}, total |-> 0]}
    ELSE LET prev == Assignments(roster, i - 1)
             p == roster[i]
         IN  prev \cup
             {[slots |-> c[1].slots \cup {c[2]},
               names |-> c[1].names \cup {p.player},
               total |-> c[1].total + p.projected_points] :
                 c \in {d \in prev \X EligibleSlots(p.position) :
                           d[2] \notin d[1].slots /\ p.player \notin d[1].names}}

\* The slots of a lineup that hold a player
Filled(lineup) == {s \in DOMAIN lineup : lineup[s] # NoPlayer}

NamesPlaced(lineup) == {lineup[s].player : s \in Filled(lineup)}

\* The slots get_optimal_lineup_from_roster fills in its first loop
StarterSlots(position) == EligibleSlots(position) \ {"FLEX"}

Placed(lineup) ==
    UNION {{<<s, i>> : i \in 1..Len(lineup[s])} : s \in DOMAIN lineup}

TableNamesPlaced(lineup) == {lineup[x[1]][x[2]].player : x \in Placed(lineup)}

----------------------------------------------------------------------------
(* Claims about the stored results *)

\* The key of the week a call of the tracker ends on
CalledKey == FileKey(args'[1], CHOOSE year \in TrackYears : TRUE)

\* C29: fetch_actual_results for a week with no saved projection record
\* returns None and creates or modifies no results record; with a record it
\* writes exactly one result per saved projection, carrying the same player,
\* position and projected_points, with difference = actual_points -
\* projected_points rounded to one decimal.
C29_ResultsFollowProjections ==
    [][(op = "idle" /\ op' = "fetch_actual_results") =>
          IF CalledKey \notin DOMAIN proj_files
          THEN /\ out' = NoResults
               /\ result_files' = result_files
          ELSE LET saved == proj_files[CalledKey].projections
                   written == result_files'[CalledKey].results
               IN  /\ out' = written
                   /\ Len(written) = Len(saved)
                   /\ \A i \in 1..Len(saved) :
                         /\ written[i].player = saved[i].player
                         /\ written[i].position = saved[i].position
                         /\ written[i].projected_points = saved[i].projected_points
                         /\ written[i].difference \in
                               Round1(written[i].actual_points
                                        - saved[i].projected_points, Scale)
                   /\ \A k \in DOMAIN result_files' \ {CalledKey} :
                         /\ k \in DOMAIN result_files
                         /\ result_files'[k] = result_files[k]]_vars

\* Results written for a saved week of two projections, the first one
\* projected above the actual points
C29_Witness ==
    /\ op = "fetch_actual_results"
    /\ out # NoResults
    /\ Len(out) = 2
    /\ out[1].projected_points > 0
    /\ out[1].difference = out[1].actual_points - out[1].projected_points
    /\ \E k \in DOMAIN result_files : result_files[k].results = out

----------------------------------------------------------------------------
(* The two pattern analyzers side by side *)

\* C30: built from the same play history, the two HistoricalPatternAnalyzer
\* implementations agree on kicker field-goal points: for every kicker, in the
\* table or not, and every projected field-goal count f,
\* fantasy_projections.get_kicker_points(full name, f, 0) equals
\* td_pattern_analyzer.get_kicker_fg_distribution(short name, f).
C30_KickerPointsAgree ==
    (/\ op = "get_kicker_points"
     /\ raised = "none"
     /\ args[2] = 0
     /\ has_space(name)
     /\ data_loaded
     /\ tpa_pc = "done") =>
        out \in get_kicker_fg_distribution(tpa_fg_patterns,
                                           short_name(str_split(name)),
                                           RTenths(args[1]))
====
